---- MODULE Spec2Model ----
(***************************************************************************)
(* Verification model of the request-resilience layer of ai-cv-optimizer:  *)
(* the retry engine (client lib/apiUtils and the copy inside the           *)
(* optimize-cv edge function), the error classifier, the client optimize   *)
(* flow, the server model invoker and the response normalizer.             *)
(*                                                                         *)
(* Strings are modelled as sequences of words (a word is a TLA+ string);   *)
(* String.prototype.includes is contiguous-subsequence search on words and *)
(* toLowerCase maps every word through LowerWord.                          *)
(***************************************************************************)
EXTENDS Integers, Sequences, FiniteSets, TLC

VARIABLES rt, cls, ui, inv, nz, srv, ut, ex, up, xt, dash

vars == <<rt, cls, ui, inv, nz, srv, ut, ex, up, xt, dash>>

(***************************************************************************)
(* Bounds of the model.                                                    *)
(***************************************************************************)
MaxRetriesBound == 4

MaxMsgLen == 2

MaxUsage == 4

MaxTextLen == 5

MaxCalls == 3

MaxLines == 30

MaxUploads == 3

\* delete clicks on one Dashboard
MaxDeletes == 3

(***************************************************************************)
(* JavaScript values that can be thrown, caught and classified.            *)
(*   kind   : null | undefined | string | number | object | error         *)
(*            ("error" is an object that is instanceof Error)             *)
(*   prim   : the words of a string primitive                              *)
(*   num    : the value of a number primitive                              *)
(*   name   : the .name property ("" when absent)                          *)
(*   mtype  : type of the .message property                                *)
(*   mstr   : .message when it is a string                                 *)
(*   mnum   : .message when it is a number                                 *)
(*   status, statusCode : numeric properties, 0 when absent                *)
(***************************************************************************)
JSVal(kind, prim, num, name, mtype, mstr, mnum, status, statusCode) ==
    [kind |-> kind, prim |-> prim, num |-> num, name |-> name,
     mtype |-> mtype, mstr |-> mstr, mnum |-> mnum,
     status |-> status, statusCode |-> statusCode]

JSNull == JSVal("null", <<>>, 0, "", "undefined", <<>>, 0, 0, 0)

JSStringPrim(words) == JSVal("string", words, 0, "", "undefined", <<>>, 0, 0, 0)

\* new Error(message), optionally with .name and .status assigned
JSError(name, words, status) ==
    JSVal("error", <<>>, 0, name, "string", words, 0, status, 0)

\* JavaScript truthiness of a value
Truthy(v) ==
    CASE v.kind = "null" -> FALSE
      [] v.kind = "undefined" -> FALSE
      [] v.kind = "string" -> v.prim # <<>>
      [] v.kind = "number" -> v.num # 0
      [] OTHER -> TRUE

\* truthiness of the .message property of a value
MessageTruthy(v) ==
    CASE v.kind \notin {"object", "error"} -> FALSE
      [] v.mtype = "undefined" -> FALSE
      [] v.mtype = "string" -> v.mstr # <<>>
      [] v.mtype = "number" -> v.mnum # 0
      [] OTHER -> TRUE

\* String(x) for the .message property
MessageToString(v) ==
    CASE v.mtype = "string" -> v.mstr
      [] v.mtype = "number" -> <<ToString(v.mnum)>>
      [] v.mtype = "object" -> <<"[object", "Object]">>
      [] OTHER -> <<"undefined">>

\* String(x) for a whole value; Error.prototype.toString gives
\* "name: message", or only the name when the message is empty
JSToString(v) ==
    CASE v.kind = "null" -> <<"null">>
      [] v.kind = "undefined" -> <<"undefined">>
      [] v.kind = "string" -> v.prim
      [] v.kind = "number" -> <<ToString(v.num)>>
      [] v.kind = "object" -> <<"[object", "Object]">>
      [] OTHER ->
           IF MessageTruthy(v)
             THEN <<v.name \o ":">> \o MessageToString(v)
             ELSE <<v.name>>

(***************************************************************************)
(* retryRequest, lib/apiUtils (client) and optimize-cv/index.ts (server).  *)
(* One record per running copy; log is the trace of what the engine did.   *)
(***************************************************************************)
Copies == {"client", "server"}

RECURSIVE Pow2(_)
Pow2(k) == IF k <= 0 THEN 1 ELSE 2 * Pow2(k - 1)

WaitTimeOffByOne(delay, attempt) == delay * Pow2(attempt)

\* const waitTime = delay * Math.pow(2, attempt - 1)
WaitTime(delay, attempt) == delay * Pow2(attempt - 1)

\* lastError = error instanceof Error ? error : new Error(String(error))
AsError(e) ==
    IF e.kind = "error" THEN e ELSE JSError("Error", JSToString(e), 0)

Event(ev, attempt, err, ms, val) ==
    [ev |-> ev, attempt |-> attempt, err |-> err, ms |-> ms, val |-> val]

RetryIdle ==
    [pc |-> "idle", maxRetries |-> 0, delay |-> 0, hasOnRetry |-> FALSE,
     attempt |-> 0, lastError |-> JSNull, result |-> "", thrown |-> JSNull,
     log |-> <<>>]

\* entry of retryRequest: let lastError = null; attempt = 1
RetryStart(maxRetries, delay, hasOnRetry) ==
    [RetryIdle EXCEPT !.pc = "loop", !.maxRetries = maxRetries,
                      !.delay = delay, !.hasOnRetry = hasOnRetry,
                      !.attempt = 1]

\* for-loop test passes: return await fn()
RetryInvokeRec(r) ==
    [r EXCEPT !.pc = "pending",
              !.log = Append(@, Event("call", r.attempt, JSNull, 0, ""))]

\* fn() resolved: retryRequest returns its value
RetryResolvedRec(r, v) ==
    [r EXCEPT !.pc = "resolved", !.result = v,
              !.log = Append(@, Event("returned", r.attempt, JSNull, 0, v))]

NotifyOnLastAttemptToo(r) == r.hasOnRetry

\* if (onRetry && attempt < maxRetries)
ShouldNotify(r) == r.hasOnRetry /\ r.attempt < r.maxRetries

KeepFirstError(r, e) == IF r.lastError.kind = "null" THEN AsError(e) ELSE r.lastError

\* lastError = ... (assigned on every caught failure)
NextLastError(r, e) == AsError(e)

\* catch block of the loop body, up to the await of the backoff timer
RetryRejectedRec(r, e) ==
    LET le == NextLastError(r, e)
        l1 == Append(r.log, Event("threw", r.attempt, e, 0, ""))
        l2 == IF ShouldNotify(r)
                THEN Append(l1, Event("onRetry", r.attempt, le, 0, ""))
                ELSE l1
    IN  IF r.attempt < r.maxRetries
          THEN [r EXCEPT !.pc = "waiting", !.lastError = le,
                         !.log = Append(l2, Event("wait", r.attempt, JSNull,
                                                  WaitTime(r.delay, r.attempt), ""))]
          ELSE [r EXCEPT !.pc = "loop", !.lastError = le, !.log = l2,
                         !.attempt = r.attempt + 1]


(***************************************************************************)
(* Values of the variables of the components that are not running.         *)
(***************************************************************************)
RtIdle == [c \in Copies |-> RetryIdle]

Idle == [pc |-> "idle"]

(***************************************************************************)
(* SpecRetry: one copy of retryRequest driving an arbitrary operation.     *)
(* The operation's outcome at every attempt is chosen by the environment.  *)
(***************************************************************************)
\* the server copy has no onRetry parameter
InitRetry ==
    /\ xt = Idle
    /\ dash = Idle
    /\ srv = Idle
    /\ ut = Idle
    /\ ex = Idle
    /\ up = Idle
    /\ \E c \in Copies, n \in 0..MaxRetriesBound, d \in {1000, 250}, obs \in BOOLEAN :
          /\ (c = "server" => ~obs)
          /\ rt = [RtIdle EXCEPT ![c] = RetryStart(n, d, obs)]
    /\ cls = Idle
    /\ ui = Idle
    /\ inv = Idle
    /\ nz = Idle

\* for (...; attempt <= maxRetries; ...) { try { return await fn() ...
RetryInvoke(c) ==
    /\ rt[c].pc = "loop"
    /\ rt[c].attempt <= rt[c].maxRetries
    /\ rt' = [rt EXCEPT ![c] = RetryInvokeRec(rt[c])]
    /\ UNCHANGED <<cls, ui, inv, nz, srv, ut, ex, up, xt, dash>>

\* loop test fails: throw lastError || new Error("Request failed after retries")
RetryExhausted(c) ==
    /\ rt[c].pc = "loop"
    /\ rt[c].attempt > rt[c].maxRetries
    /\ rt' = [rt EXCEPT ![c] =
                [@ EXCEPT !.pc = "rejected",
                          !.thrown = IF Truthy(rt[c].lastError) THEN rt[c].lastError
                                     ELSE JSError("Error", <<"Request", "failed", "after", "retries">>, 0)]]
    /\ UNCHANGED <<cls, ui, inv, nz, srv, ut, ex, up, xt, dash>>

\* setTimeout(resolve, waitTime) fires: attempt++
RetryTimer(c) ==
    /\ rt[c].pc = "waiting"
    /\ rt' = [rt EXCEPT ![c] = [@ EXCEPT !.pc = "loop", !.attempt = @ + 1]]
    /\ UNCHANGED <<cls, ui, inv, nz, srv, ut, ex, up, xt, dash>>

\* the operation under retry resolves
OpResolve(c) ==
    /\ rt[c].pc = "pending"
    /\ \E v \in {"v1", "v2"} : rt' = [rt EXCEPT ![c] = RetryResolvedRec(rt[c], v)]
    /\ UNCHANGED <<cls, ui, inv, nz, srv, ut, ex, up, xt, dash>>

\* the operation under retry rejects: it throws an Error instance or a
\* value that is no Error
OpReject(c) ==
    /\ rt[c].pc = "pending"
    /\ \E e \in { JSError("Error", <<"boom">>, 500),
                  JSError("TypeError", <<"Failed", "to", "fetch">>, 0),
                  JSStringPrim(<<"plain", "failure">>) } : rt' = [rt EXCEPT ![c] = RetryRejectedRec(rt[c], e)]
    /\ UNCHANGED <<cls, ui, inv, nz, srv, ut, ex, up, xt, dash>>

NextRetry ==
    \/ \E c \in Copies : RetryInvoke(c)
    \/ \E c \in Copies : RetryExhausted(c)
    \/ \E c \in Copies : RetryTimer(c)
    \/ \E c \in Copies : OpResolve(c)
    \/ \E c \in Copies : OpReject(c)

SpecRetry == InitRetry /\ [][NextRetry]_vars

(***************************************************************************)
(* Reading the engine's trace.                                             *)
(***************************************************************************)
EventsOf(log, ev) == SelectSeq(log, LAMBDA x : x.ev = ev)

RECURSIVE SumMs(_)
SumMs(s) == IF s = <<>> THEN 0 ELSE Head(s).ms + SumMs(Tail(s))

\* position of the first event of kind ev for the given attempt, 0 if none
PosOf(log, ev, attempt) ==
    IF \E i \in 1..Len(log) : log[i].ev = ev /\ log[i].attempt = attempt
      THEN CHOOSE i \in 1..Len(log) :
             /\ log[i].ev = ev /\ log[i].attempt = attempt
             /\ \A j \in 1..(i - 1) : ~(log[j].ev = ev /\ log[j].attempt = attempt)
      ELSE 0

\* C1: with maxRetries = n >= 1, a retryRequest that has rejected invoked the
\* operation exactly n times, every one of them failed, and the rejection
\* carries the error of the n-th attempt (as an Error: a thrown non-Error
\* value is wrapped in new Error(String(value))); the operation is never
\* invoked more than n times.
C1_ExactlyNAttemptsLastError ==
    \A c \in Copies :
      LET r == rt[c]
          calls == EventsOf(r.log, "call")
          threw == EventsOf(r.log, "threw")
      IN  /\ Len(calls) <= r.maxRetries
          /\ (r.pc = "rejected" /\ r.maxRetries >= 1) =>
               /\ Len(calls) = r.maxRetries
               /\ Len(threw) = r.maxRetries
               /\ \A k \in 1..r.maxRetries :
                     calls[k].attempt = k /\ threw[k].attempt = k
               /\ EventsOf(r.log, "returned") = <<>>
               /\ r.thrown = IF threw[r.maxRetries].err.kind = "error"
                               THEN threw[r.maxRetries].err
                               ELSE JSError("Error", JSToString(threw[r.maxRetries].err), 0)

C1_Witness ==
    \E c \in Copies :
      LET r == rt[c]
          threw == EventsOf(r.log, "threw")
      IN  /\ r.pc = "rejected"
          /\ r.maxRetries = 3
          /\ Len(threw) = 3
          /\ threw[1].err # threw[3].err
          /\ r.thrown = threw[3].err

\* C2: the k-th wait follows failed attempt k and lasts delay * 2^(k-1);
\* no wait follows the n-th attempt; when all n >= 1 attempts have failed
\* there were n-1 waits, delay * (2^(n-1) - 1) in total.
C2_BackoffSchedule ==
    \A c \in Copies :
      LET r == rt[c]
          waits == EventsOf(r.log, "wait")
      IN  /\ \A k \in 1..Len(waits) :
                /\ waits[k].attempt = k
                /\ k < r.maxRetries
                /\ waits[k].ms = r.delay * (2 ^ (k - 1))
                /\ PosOf(r.log, "threw", k) # 0
                /\ PosOf(r.log, "threw", k) < PosOf(r.log, "wait", k)
                /\ (PosOf(r.log, "call", k + 1) # 0 =>
                      PosOf(r.log, "wait", k) < PosOf(r.log, "call", k + 1))
          /\ \A k \in 1..(r.maxRetries - 1) :
                PosOf(r.log, "call", k + 1) # 0 => PosOf(r.log, "wait", k) # 0
          /\ (r.pc = "rejected" /\ r.maxRetries >= 1) =>
                /\ Len(waits) = r.maxRetries - 1
                /\ SumMs(waits) = r.delay * ((2 ^ (r.maxRetries - 1)) - 1)

C2_Witness ==
    \E c \in Copies :
      LET r == rt[c]
          waits == EventsOf(r.log, "wait")
      IN  /\ r.pc = "rejected"
          /\ r.maxRetries = 3
          /\ r.delay = 1000
          /\ Len(waits) = 2
          /\ waits[1].ms = 1000
          /\ waits[2].ms = 2000
          /\ SumMs(waits) = 3000

\* C3: with an observer, after j < n failures followed by a success the
\* result is the value of attempt j+1, that return is the last thing the
\* engine did, the observer ran exactly j times, for attempts 1..j in order,
\* each time with that attempt's error and before that attempt's wait; in no
\* state has the observer run for attempt n.
C3_ObserverOnSuccess ==
    LET r == rt["client"]
        notes == EventsOf(r.log, "onRetry")
        threw == EventsOf(r.log, "threw")
        rets == EventsOf(r.log, "returned")
    IN  r.hasOnRetry =>
          /\ \A k \in 1..Len(notes) : notes[k].attempt < r.maxRetries
          /\ r.pc = "resolved" =>
               /\ Len(rets) = 1
               /\ r.log[Len(r.log)].ev = "returned"
               /\ r.result = rets[1].val
               /\ rets[1].attempt = Len(threw) + 1
               /\ Len(EventsOf(r.log, "call")) = Len(threw) + 1
               /\ Len(threw) < r.maxRetries
               /\ Len(notes) = Len(threw)
               /\ \A k \in 1..Len(notes) :
                     /\ notes[k].attempt = k
                     /\ threw[k].attempt = k
                     /\ notes[k].err = AsError(threw[k].err)
                     /\ PosOf(r.log, "threw", k) < PosOf(r.log, "onRetry", k)
                     /\ PosOf(r.log, "onRetry", k) < PosOf(r.log, "wait", k)

C3_Witness ==
    LET r == rt["client"]
    IN  /\ r.hasOnRetry
        /\ r.pc = "resolved"
        /\ r.maxRetries = 3
        /\ r.result = "v1"
        /\ Len(EventsOf(r.log, "threw")) = 2
        /\ Len(EventsOf(r.log, "onRetry")) = 2


(***************************************************************************)
(* Strings: toLowerCase and includes on word sequences.                    *)
(***************************************************************************)
\* String.prototype.toLowerCase, word by word
ToLowerCase(s) ==
    LET LowerWord(w) ==
            CASE w = "Rate" -> "rate"
              [] w = "Limit" -> "limit"
              [] w = "TIMEOUT" -> "timeout"
              [] w = "Timeout" -> "timeout"
              [] w = "Network" -> "network"
              [] w = "Connection" -> "connection"
              [] w = "Server" -> "server"
              [] w = "Error" -> "error"
              [] w = "Service" -> "service"
              [] w = "Unavailable" -> "unavailable"
              [] w = "Edge" -> "edge"
              [] w = "Function" -> "function"
              [] w = "Failed" -> "failed"
              [] w = "Unauthorized" -> "unauthorized"
              [] w = "Internal" -> "internal"
              [] w = "Payment" -> "payment"
              [] w = "Invalid" -> "invalid"
              [] w = "AI" -> "ai"
              [] w = "Not" -> "not"
              [] w = "Found" -> "found"
              [] w = "[object" -> "[object"
              [] w = "Object]" -> "object]"
              [] w = "CV" -> "cv"
              [] w = ".PDF" -> ".pdf"
              [] w = ".Docx" -> ".docx"
              [] w = ".DOC" -> ".doc"
              [] w = ".TXT" -> ".txt"
              [] OTHER -> w
    IN  [i \in 1..Len(s) |-> LowerWord(s[i])]

\* String.prototype.includes
Includes(s, p) ==
    \E i \in 0..(Len(s) - Len(p)) : SubSeq(s, i + 1, i + Len(p)) = p

(***************************************************************************)
(* isRetryableError, lib/apiUtils.                                         *)
(***************************************************************************)
RetryableMessages ==
    { <<"timeout">>, <<"network">>, <<"connection">>, <<"rate", "limit">>,
      <<"server", "error">>, <<"service", "unavailable">>,
      <<"temporarily", "unavailable">> }

\* error.status || error.statusCode (0 stands for absent, and is falsy too)
StatusOf(e) ==
    IF e.kind \in {"object", "error"}
      THEN (IF e.status # 0 THEN e.status ELSE e.statusCode)
      ELSE 0

RetryableStatusBelow599(status) ==
    status = 429 \/ status = 408 \/ (status >= 500 /\ status < 599)

\* status === 429 || status === 408 || (status >= 500 && status < 600)
RetryableStatus(status) ==
    status = 429 \/ status = 408 \/ (status >= 500 /\ status < 600)

\* errorMessage is String(error.message || error).toLowerCase()
IsRetryableError(e) ==
    IF ~Truthy(e) THEN FALSE
    ELSE IF e.kind \in {"object", "error"} /\ e.name \in {"NetworkError", "TypeError"}
      THEN TRUE
    ELSE IF StatusOf(e) # 0 THEN RetryableStatus(StatusOf(e))
    ELSE \E errorMessage \in
              { ToLowerCase(IF MessageTruthy(e) THEN MessageToString(e)
                            ELSE JSToString(e)) } :
            \E msg \in RetryableMessages : Includes(errorMessage, msg)

(***************************************************************************)
(* parseErrorMessage, lib/apiUtils.  The result is what the call does:     *)
(* return a text, or throw.                                                *)
(***************************************************************************)
Returns(text) == [kind |-> "return", text |-> text]

\* switch (status) of parseErrorMessage
StatusText(status) ==
    CASE status = 400 -> <<"Invalid request. Please check your inputs.">>
      [] status = 401 -> <<"Authentication failed. Please sign in again.">>
      [] status = 403 -> <<"Access denied. You don't have permission for this action.">>
      [] status = 404 -> <<"Resource not found.">>
      [] status = 429 -> <<"Too many requests. Please wait a moment and try again.">>
      [] status = 500 -> <<"Server error. Please try again later.">>
      [] status = 503 -> <<"Service temporarily unavailable. Please try again later.">>
      [] OTHER -> <<"Error", ToString(status) \o ":", "Please", "try", "again.">>

\* the if-chain on errorMsg = error.message.toLowerCase()
MessageText(e) ==
    LET errorMsg == ToLowerCase(e.mstr)
    IN  IF Includes(errorMsg, <<"failed", "to", "send", "a", "request">>)
           \/ Includes(errorMsg, <<"edge", "function">>)
          THEN <<"Edge Function not accessible. The function may not be deployed or environment variables may be missing. Check the browser console and ensure the function is deployed.">>
        ELSE IF Includes(errorMsg, <<"function", "not", "found">>)
                \/ Includes(errorMsg, <<"404">>)
          THEN <<"Edge Function 'optimize-cv' not found. Please deploy it using: supabase functions deploy optimize-cv">>
        ELSE IF Includes(errorMsg, <<"unauthorized">>) \/ Includes(errorMsg, <<"401">>)
          THEN <<"Authentication error. Please check your Supabase credentials in .env file">>
        ELSE IF Includes(errorMsg, <<"rate", "limit">>) \/ Includes(errorMsg, <<"429">>)
          THEN <<"Rate limit exceeded. Please wait a moment and try again.">>
        ELSE IF Includes(errorMsg, <<"network">>) \/ Includes(errorMsg, <<"fetch">>)
                \/ Includes(errorMsg, <<"failed", "to", "fetch">>)
          THEN <<"Network error. Please check your connection and try again.">>
        ELSE IF Includes(errorMsg, <<"timeout">>)
          THEN <<"Request timed out. Please try again.">>
        ELSE IF Includes(errorMsg, <<"payment">>) \/ Includes(errorMsg, <<"402">>)
                \/ Includes(errorMsg, <<"credit">>)
          THEN <<"API credits required. Please configure your AI provider API key.">>
        ELSE e.mstr

ParseErrorMessageStatusFirst(e) ==
    IF ~Truthy(e) THEN Returns(<<"An unknown error occurred">>)
    ELSE IF StatusOf(e) # 0 THEN Returns(StatusText(StatusOf(e)))
    ELSE IF MessageTruthy(e)
      THEN (IF e.mtype = "string"
              THEN Returns(MessageText(e))
              ELSE [kind |-> "throw", text |-> <<"TypeError:", "error.message.toLowerCase", "is", "not", "a", "function">>])
    ELSE Returns(<<"An unexpected error occurred. Please try again.">>)

ParseErrorMessage(e) ==
    IF ~Truthy(e) THEN Returns(<<"An unknown error occurred">>)
    ELSE IF MessageTruthy(e)
      THEN (IF e.mtype = "string"
              THEN Returns(MessageText(e))
              ELSE [kind |-> "throw", text |-> <<"TypeError:", "error.message.toLowerCase", "is", "not", "a", "function">>])
    ELSE IF StatusOf(e) # 0 THEN Returns(StatusText(StatusOf(e)))
    ELSE Returns(<<"An unexpected error occurred. Please try again.">>)


(***************************************************************************)
(* SpecClassify: isRetryableError and parseErrorMessage applied to one     *)
(* input drawn from a bounded set of JavaScript values.                    *)
(***************************************************************************)
SeqsUpTo(S, n) == UNION {[1..k -> S] : k \in 0..n}

\* the values classified: objects and Error instances with a name, with
\* the .message property absent, a string, a number or an object, and with
\* status and statusCode; null, undefined, numbers and strings
ClassifierInputs ==
    LET MessageStrings ==
          SeqsUpTo({"Rate", "limit", "TIMEOUT", "ok"}, MaxMsgLen)
          \cup { <<"Edge", "Function", "returned", "a", "non-2xx", "status", "code">>,
                 <<"Failed", "to", "send", "a", "request", "to", "the", "Edge", "Function">>,
                 <<"Failed", "to", "fetch">>,
                 <<"Function", "not", "found">>,
                 <<"Unauthorized">>,
                 <<"Service", "Unavailable">>,
                 <<"Internal", "Server", "Error">>,
                 <<"temporarily", "unavailable">>,
                 <<"Connection", "refused">>,
                 <<"Network", "request", "failed">>,
                 <<"Payment", "required">>,
                 <<"Invalid", "input">>,
                 <<"Failed", "to", "parse", "AI", "response">>,
                 <<"Rate", "limit", "exceeded", "and", "Network", "down">> }
        MessageInputs ==
          { [mtype |-> "undefined", mstr |-> <<>>, mnum |-> 0],
            [mtype |-> "number", mstr |-> <<>>, mnum |-> 0],
            [mtype |-> "number", mstr |-> <<>>, mnum |-> 42],
            [mtype |-> "object", mstr |-> <<>>, mnum |-> 0] }
          \cup { [mtype |-> "string", mstr |-> m, mnum |-> 0] : m \in MessageStrings }
    IN  { JSVal(k, <<>>, 0, n, m.mtype, m.mstr, m.mnum, st, sc) :
            k \in {"object", "error"}, n \in {"", "Error", "TypeError", "NetworkError"},
            m \in MessageInputs,
            st \in {0, 400, 401, 404, 408, 429, 499, 500, 503, 598, 599, 600},
            sc \in {0, 503} }
        \cup { JSNull, JSVal("undefined", <<>>, 0, "", "undefined", <<>>, 0, 0, 0),
               JSVal("number", <<>>, 0, "", "undefined", <<>>, 0, 0, 0),
               JSVal("number", <<>>, 404, "", "undefined", <<>>, 0, 0, 0) }
        \cup { JSStringPrim(m) : m \in MessageStrings }

InitClassify ==
    /\ xt = Idle
    /\ dash = Idle
    /\ srv = Idle
    /\ ut = Idle
    /\ ex = Idle
    /\ up = Idle
    /\ rt = RtIdle
    /\ \E e \in ClassifierInputs :
          cls = [pc |-> "input", err |-> e,
                 retryable |-> [called |-> FALSE, value |-> FALSE],
                 parsed |-> [kind |-> "none", text |-> <<>>]]
    /\ ui = Idle
    /\ inv = Idle
    /\ nz = Idle

CallIsRetryableError ==
    /\ cls.pc = "input"
    /\ ~cls.retryable.called
    /\ cls' = [cls EXCEPT !.retryable =
                 [called |-> TRUE, value |-> IsRetryableError(cls.err)]]
    /\ UNCHANGED <<rt, ui, inv, nz, srv, ut, ex, up, xt, dash>>

CallParseErrorMessage ==
    /\ cls.pc = "input"
    /\ cls.parsed.kind = "none"
    /\ cls' = [cls EXCEPT !.parsed = ParseErrorMessage(cls.err)]
    /\ UNCHANGED <<rt, ui, inv, nz, srv, ut, ex, up, xt, dash>>

NextClassify == CallIsRetryableError \/ CallParseErrorMessage

SpecClassify == InitClassify /\ [][NextClassify]_vars

\* the status code of an error: .status, or .statusCode when .status is absent
ClaimStatus(e) == IF e.status # 0 THEN e.status ELSE e.statusCode

\* the lowercased text the vocabulary is searched in
ClaimHasVocabulary(e) ==
    \E msg \in RetryableMessages :
       Includes(ToLowerCase(IF MessageTruthy(e) THEN MessageToString(e)
                            ELSE JSToString(e)), msg)

\* a value that is not of network kind and has no vocabulary word
ClaimPlainError(e) ==
    /\ e.name \notin {"NetworkError", "TypeError"}
    /\ ~ClaimHasVocabulary(e)

\* C5 (as stated): for an error that is not network-kind and has no
\* vocabulary word, isRetryableError is true exactly when the status is 429,
\* 408 or in the half-open range [500,599).
C5_Original_HalfOpen599 ==
    (cls.pc = "input" /\ cls.retryable.called /\ ClaimPlainError(cls.err)) =>
       (cls.retryable.value <=>
          LET st == ClaimStatus(cls.err)
          IN  st = 429 \/ st = 408 \/ (st >= 500 /\ st < 599))

\* C5 (amended): for an error that is not network-kind and has no vocabulary
\* word, isRetryableError is true exactly when the status is 429, 408 or in
\* 500..599 inclusive, and false for every other status (400, 401, 404, 600).
C5_StatusRule ==
    (cls.pc = "input" /\ cls.retryable.called /\ ClaimPlainError(cls.err)) =>
       (cls.retryable.value <=>
          LET st == ClaimStatus(cls.err)
          IN  st = 429 \/ st = 408 \/ (st >= 500 /\ st <= 599))

C5_Witness ==
    /\ cls.pc = "input"
    /\ cls.retryable.called
    /\ ClaimPlainError(cls.err)
    /\ cls.err.status = 599
    /\ cls.retryable.value

\* C6 (as stated): an error whose lowercased message contains a vocabulary
\* word is retryable whatever its status code or name, and a 404-status
\* error without such a word is not retryable.
C6_VocabularyAnyOf ==
    (cls.pc = "input" /\ cls.retryable.called
       /\ cls.err.kind \in {"object", "error"}) =>
       /\ (cls.err.mtype = "string"
             /\ (\E msg \in RetryableMessages : Includes(ToLowerCase(cls.err.mstr), msg)))
            => cls.retryable.value
       /\ (ClaimPlainError(cls.err) /\ ClaimStatus(cls.err) = 404)
            => ~cls.retryable.value

\* C7 (as stated): isRetryableError and parseErrorMessage return a value
\* and never throw, for every input.
C7_ClassifierTotal ==
    (cls.pc = "input" /\ cls.parsed.kind # "none") => cls.parsed.kind = "return"


\* the categories of message phrases in the claimed order, each with the
\* text it gives
ClaimCategories ==
    << [phrases |-> {<<"failed", "to", "send", "a", "request">>, <<"edge", "function">>},
        text |-> <<"Edge Function not accessible. The function may not be deployed or environment variables may be missing. Check the browser console and ensure the function is deployed.">>],
       [phrases |-> {<<"function", "not", "found">>, <<"404">>},
        text |-> <<"Edge Function 'optimize-cv' not found. Please deploy it using: supabase functions deploy optimize-cv">>],
       [phrases |-> {<<"unauthorized">>, <<"401">>},
        text |-> <<"Authentication error. Please check your Supabase credentials in .env file">>],
       [phrases |-> {<<"rate", "limit">>, <<"429">>},
        text |-> <<"Rate limit exceeded. Please wait a moment and try again.">>],
       [phrases |-> {<<"network">>, <<"fetch">>},
        text |-> <<"Network error. Please check your connection and try again.">>],
       [phrases |-> {<<"timeout">>},
        text |-> <<"Request timed out. Please try again.">>],
       [phrases |-> {<<"payment">>, <<"402">>, <<"credit">>},
        text |-> <<"API credits required. Please configure your AI provider API key.">>] >>

\* the categories a message matches
ClaimMatching(m) ==
    { i \in 1..Len(ClaimCategories) :
        \E ph \in ClaimCategories[i].phrases : Includes(ToLowerCase(m), ph) }

\* C25: for an error with a message, parseErrorMessage gives the text of
\* the first category, in the order edge-function, not-found, unauthorized,
\* rate limit, network, timeout, payment, that the lowercased message
\* matches, whatever the status code, and the message itself when none
\* matches; the status-code table decides only for an error without message.
C25_MessageBeforeStatus ==
    (cls.pc = "input" /\ cls.parsed.kind = "return" /\ Truthy(cls.err)) =>
       IF MessageTruthy(cls.err)
         THEN LET ms == ClaimMatching(cls.err.mstr)
              IN  cls.parsed.text =
                    IF ms = {} THEN cls.err.mstr
                    ELSE ClaimCategories[CHOOSE i \in ms : \A j \in ms : i <= j].text
         ELSE cls.parsed.text =
                IF ClaimStatus(cls.err) # 0 THEN StatusText(ClaimStatus(cls.err))
                ELSE <<"An unexpected error occurred. Please try again.">>

\* a message naming both a rate limit and the network, on an error that
\* also carries status 500, got the rate-limit text
C25_Witness ==
    /\ cls.pc = "input"
    /\ cls.err.mstr = <<"Rate", "limit", "exceeded", "and", "Network", "down">>
    /\ cls.err.status = 500
    /\ cls.parsed = Returns(<<"Rate limit exceeded. Please wait a moment and try again.">>)


(***************************************************************************)
(* SpecOptimize: the Index page and handleOptimize (pages/Index.tsx).      *)
(* The optimize-cv endpoint, the usage_tracking row of this session and    *)
(* the auth session are the environment.  toasts and calls are the notices *)
(* shown and the endpoint responses received since the last click.         *)
(***************************************************************************)
ClientMaxRetriesTwo == 3 - 1

\* retryRequest(..., 3, 1000, onRetry) in handleOptimize
ClientMaxRetries == 3

ClientDelay == 1000

TrialLimit == 3

Toast(level, text) == [level |-> level, text |-> text]

\* what supabase.functions.invoke can put in invokeResult.error
EndpointErrors ==
    { JSError("FunctionsHttpError",
              <<"Edge", "Function", "returned", "a", "non-2xx", "status", "code">>, 0),
      JSError("Error", <<"Internal", "Server", "Error">>, 500),
      JSError("Error", <<"Rate", "limit", "exceeded">>, 429),
      JSError("TypeError", <<"Failed", "to", "fetch">>, 0),
      JSError("Error", <<"Invalid", "input">>, 400),
      JSVal("error", <<>>, 0, "Error", "number", <<>>, 42, 400, 0) }

\* what the operation passed to retryRequest throws for invokeResult.error:
\* the error itself when it is not retryable, else
\* retryError = new Error(invokeResult.error.message || "Optimization failed")
\* with retryError.status = invokeResult.error.status
ThrownByInvoke(e) ==
    IF ~IsRetryableError(e) THEN e
    ELSE JSError("Error",
                 IF MessageTruthy(e) THEN MessageToString(e)
                 ELSE <<"Optimization", "failed">>,
                 e.status)

\* the page after mount: the auth session, the two text fields (empty,
\* blank or with text), the Supabase configuration and the usage row
InitOptimize ==
    /\ xt = Idle
    /\ dash = Idle
    /\ srv = Idle
    /\ ut = Idle
    /\ ex = Idle
    /\ up = Idle
    /\ rt = RtIdle
    /\ cls = Idle
    /\ \E sess \in BOOLEAN, res \in {"empty", "blank", "text"},
          jd \in {"empty", "blank", "text"}, cfg \in BOOLEAN, db \in 0..MaxUsage :
          ui = [pc |-> "ready", session |-> sess, user |-> FALSE, authLoaded |-> FALSE,
                resumeText |-> res, jobDescription |-> jd, configOk |-> cfg,
                usageCount |-> 0, usageLoaded |-> FALSE, dbCount |-> db,
                isOptimizing |-> FALSE, optimizedCV |-> "none", navigated |-> FALSE,
                unhandled |-> FALSE, toasts |-> <<>>, calls |-> <<>>,
                usageResult |-> "none", succeeded |-> 0, inFlight |-> 0]
    /\ inv = Idle
    /\ nz = Idle

\* supabase.auth.getSession().then(... setUser(session?.user ?? null))
AuthStateLoaded ==
    /\ ui.pc # "idle"
    /\ ~ui.authLoaded
    /\ ui' = [ui EXCEPT !.authLoaded = TRUE, !.user = ui.session]
    /\ UNCHANGED <<rt, cls, inv, nz, srv, ut, ex, up, xt, dash>>

\* checkUsageLimit() started by useEffect on mount: the row's count, or 0
\* when the query returns no data.  It awaits getSession() and then the
\* query, both issued after the getSession() whose then() calls setUser, so
\* it sets the count after the user is set.
MountCheckUsage ==
    /\ ui.pc # "idle"
    /\ ui.authLoaded
    /\ ~ui.usageLoaded
    /\ \E ok \in BOOLEAN :
          ui' = [ui EXCEPT !.usageLoaded = TRUE,
                           !.usageCount = IF ok THEN ui.dbCount ELSE 0]
    /\ UNCHANGED <<rt, cls, inv, nz, srv, ut, ex, up, xt, dash>>

ButtonEnabledWhileOptimizing ==
    /\ ui.pc # "idle"
    /\ ~ui.navigated
    /\ ui.resumeText # "empty"
    /\ ui.jobDescription # "empty"

\* <Button onClick={handleOptimize}
\*         disabled={isOptimizing || !resumeText || !jobDescription}>
\* on the mounted page; setIsOptimizing(true) is called in the synchronous
\* part of the click handler, so the button is rendered disabled before
\* the next click is dispatched
ButtonEnabled ==
    /\ ui.pc # "idle"
    /\ ~ui.navigated
    /\ ~ui.isOptimizing
    /\ ui.resumeText # "empty"
    /\ ui.jobDescription # "empty"

RejectionToastNoConfigCheck ==
    IF ui.resumeText # "text"
      THEN <<"Please upload or paste your resume first">>
    ELSE IF ui.jobDescription # "text"
      THEN <<"Please provide a job description">>
    ELSE IF ~ui.user /\ ui.usageCount >= TrialLimit
      THEN <<"Free trial limit reached. Please sign up to continue.">>
    ELSE <<>>

\* the early returns of handleOptimize
RejectionToast ==
    IF ui.resumeText # "text"
      THEN <<"Please upload or paste your resume first">>
    ELSE IF ui.jobDescription # "text"
      THEN <<"Please provide a job description">>
    ELSE IF ~ui.user /\ ui.usageCount >= TrialLimit
      THEN <<"Free trial limit reached. Please sign up to continue.">>
    ELSE IF ~ui.configOk
      THEN <<"Missing Supabase configuration. Please check your .env file and ensure VITE_SUPABASE_URL and VITE_SUPABASE_PUBLISHABLE_KEY are set.">>
    ELSE <<>>

\* a click that handleOptimize turns down before setIsOptimizing(true)
ClickRejected ==
    /\ ButtonEnabled
    /\ RejectionToast # <<>>
    /\ ui' = [ui EXCEPT !.toasts = <<Toast("error", RejectionToast)>>,
                        !.calls = <<>>,
                        !.navigated = (ui.resumeText = "text"
                                        /\ ui.jobDescription = "text"
                                        /\ ~ui.user /\ ui.usageCount >= TrialLimit)]
    /\ rt' = RtIdle
    /\ UNCHANGED <<cls, inv, nz, srv, ut, ex, up, xt, dash>>

\* setIsOptimizing(true); retryRequest(fn, 3, 1000, onRetry)
ClickAccepted ==
    /\ ButtonEnabled
    /\ RejectionToast = <<>>
    /\ ui.dbCount < MaxUsage
    /\ ui.succeeded < MaxUsage
    /\ ui' = [ui EXCEPT !.pc = "running", !.isOptimizing = TRUE,
                        !.inFlight = @ + 1,
                        !.toasts = <<>>, !.calls = <<>>, !.usageResult = "none"]
    /\ rt' = [RtIdle EXCEPT !["client"] =
                 RetryStart(ClientMaxRetries, ClientDelay, TRUE)]
    /\ UNCHANGED <<cls, inv, nz, srv, ut, ex, up, xt, dash>>

\* the notices the onRetry callback adds for the events new in the log:
\* toast.info("Retrying... (" + attempt + "/3)")
NewNotices(old, new) ==
    LET o == EventsOf(old.log, "onRetry")
        n == EventsOf(new.log, "onRetry")
    IN  IF Len(n) > Len(o)
          THEN <<Toast("info", <<"Retrying...",
                                 "(" \o ToString(n[Len(n)].attempt) \o "/3)">>)>>
          ELSE <<>>

\* supabase.functions.invoke("optimize-cv") settles with invokeResult
\* { data, error }; the operation either returns invokeResult or throws, and
\* the catch block of retryRequest runs
EndpointResponds ==
    /\ ui.pc = "running"
    /\ rt["client"].pc = "pending"
    /\ \E res \in { [data |-> "cv1", error |-> JSNull] }
                  \cup { [data |-> "", error |-> e] : e \in EndpointErrors } :
          LET r == rt["client"]
              r2 == IF Truthy(res.error)
                      THEN RetryRejectedRec(r, ThrownByInvoke(res.error))
                      ELSE RetryResolvedRec(r, res.data)
          IN  /\ rt' = [rt EXCEPT !["client"] = r2]
              /\ ui' = [ui EXCEPT !.calls = Append(@, res),
                                  !.toasts = @ \o NewNotices(r, r2)]
    /\ UNCHANGED <<cls, inv, nz, srv, ut, ex, up, xt, dash>>

ClientRetryInvoke ==
    /\ ui.pc = "running"
    /\ RetryInvoke("client")

ClientRetryTimer ==
    /\ ui.pc = "running"
    /\ RetryTimer("client")

ClientRetryExhausted ==
    /\ ui.pc = "running"
    /\ RetryExhausted("client")

\* setOptimizedCV(result.data); then await supabase.rpc("increment_usage")
OptimizeSucceeded ==
    /\ ui.pc = "running"
    /\ rt["client"].pc = "resolved"
    /\ ui' = [ui EXCEPT !.pc = "usage", !.optimizedCV = rt["client"].result,
                        !.succeeded = @ + 1]
    /\ UNCHANGED <<rt, cls, inv, nz, srv, ut, ex, up, xt, dash>>

\* finally { setIsOptimizing(false) } after toast.success
FinishSuccess(u) ==
    [u EXCEPT !.pc = "ready", !.isOptimizing = FALSE, !.inFlight = @ - 1,
              !.toasts = Append(@, Toast("success", <<"CV optimized successfully!">>))]

\* await supabase.rpc("increment_usage") settled: the row is incremented, or
\* an error is returned and ignored, or the call threw and the inner catch
\* skips the refresh
UsageIncremented ==
    /\ ui.pc = "usage"
    /\ \E r \in {"ok", "rpc-error", "rpc-threw"} :
          ui' = IF r = "ok"
                  THEN [ui EXCEPT !.pc = "refresh", !.dbCount = @ + 1,
                                  !.usageResult = r]
                ELSE IF r = "rpc-error"
                  THEN [ui EXCEPT !.pc = "refresh", !.usageResult = r]
                ELSE FinishSuccess([ui EXCEPT !.usageResult = r])
    /\ UNCHANGED <<rt, cls, inv, nz, srv, ut, ex, up, xt, dash>>

\* await checkUsageLimit() settled: usageCount re-read, set to 0 when the
\* query returns no data, or left alone when the re-read threw; its
\* getSession() is served after the one issued on mount
UsageRefreshed ==
    /\ ui.pc = "refresh"
    /\ ui.authLoaded
    /\ \E r \in {"ok", "read-error", "read-threw"} :
          ui' = FinishSuccess(
                  IF r = "ok" THEN [ui EXCEPT !.usageCount = ui.dbCount]
                  ELSE IF r = "read-error"
                    THEN [ui EXCEPT !.usageCount = 0, !.usageResult = r]
                  ELSE [ui EXCEPT !.usageResult = r])
    /\ UNCHANGED <<rt, cls, inv, nz, srv, ut, ex, up, xt, dash>>

\* catch (error) { toast.error(parseErrorMessage(error)) } finally { ... }
OptimizeFailed ==
    /\ ui.pc = "running"
    /\ rt["client"].pc = "rejected"
    /\ LET msg == ParseErrorMessage(rt["client"].thrown)
       IN  ui' = [ui EXCEPT !.pc = "ready", !.isOptimizing = FALSE,
                            !.inFlight = @ - 1,
                            !.unhandled = (msg.kind = "throw"),
                            !.toasts = IF msg.kind = "return"
                                         THEN Append(@, Toast("error", msg.text))
                                         ELSE @]
    /\ UNCHANGED <<rt, cls, inv, nz, srv, ut, ex, up, xt, dash>>

NextOptimize ==
    \/ AuthStateLoaded
    \/ MountCheckUsage
    \/ ClickRejected
    \/ ClickAccepted
    \/ ClientRetryInvoke
    \/ EndpointResponds
    \/ ClientRetryTimer
    \/ ClientRetryExhausted
    \/ OptimizeSucceeded
    \/ UsageIncremented
    \/ UsageRefreshed
    \/ OptimizeFailed

SpecOptimize == InitOptimize /\ [][NextOptimize]_vars

\* the promises a run awaits settle and its backoff timers fire: the auth
\* session read on mount, the endpoint invocation, the usage call and the
\* usage re-read each complete, and every continuation of handleOptimize and
\* retryRequest then runs
SpecOptimizeFair ==
    /\ SpecOptimize
    /\ WF_vars(AuthStateLoaded)
    /\ WF_vars(ClientRetryInvoke \/ EndpointResponds \/ ClientRetryTimer
                 \/ ClientRetryExhausted \/ OptimizeSucceeded
                 \/ UsageIncremented \/ UsageRefreshed \/ OptimizeFailed)


\* the endpoint responses of the current run that carry an error
FailedCall(i) == Truthy(ui.calls[i].error)

NonRetryableCall(i) == FailedCall(i) /\ ~IsRetryableError(ui.calls[i].error)

RunStarted == ui.pc # "idle" /\ rt["client"].pc # "idle"

InfoToasts == SelectSeq(ui.toasts, LAMBDA t : t.level = "info")

ErrorToasts == SelectSeq(ui.toasts, LAMBDA t : t.level = "error")

\* C4 (as stated): once an endpoint invocation of a run has failed with an
\* error isRetryableError classifies as non-retryable, the run makes no
\* further invocation, waits no backoff and shows no 'Retrying...' notice
\* for it, and that error is the one reported.
C4_NonRetryableShortCircuit ==
    RunStarted =>
      \A i \in 1..Len(ui.calls) :
        NonRetryableCall(i) =>
          /\ Len(ui.calls) = i
          /\ Len(EventsOf(rt["client"].log, "call")) = i
          /\ \A k \in 1..Len(rt["client"].log) :
                rt["client"].log[k].ev \in {"wait", "onRetry"}
                  => rt["client"].log[k].attempt < i
          /\ Len(InfoToasts) < i
          /\ rt["client"].pc = "rejected" => rt["client"].thrown = ui.calls[i].error

\* every endpoint response of the current run so far is a retryable error
AllRetryableSoFar ==
    \A i \in 1..Len(ui.calls) :
       FailedCall(i) /\ IsRetryableError(ui.calls[i].error)

IsPrefix(s, t) == Len(s) <= Len(t) /\ s = SubSeq(t, 1, Len(s))

Min(a, b) == IF a <= b THEN a ELSE b

\* C8: in a run whose endpoint invocations all fail with retryable errors
\* the endpoint is invoked at most 3 times, with waits of 1000 ms then
\* 2000 ms between invocations; the progress notices are 'Retrying... (1/3)'
\* then 'Retrying... (2/3)'; no error notice is shown while the run is in
\* progress, and the finished run shows exactly one, after the third failure.
C8_TransientFailures ==
    (RunStarted /\ AllRetryableSoFar) =>
      LET r == rt["client"]
          waits == EventsOf(r.log, "wait")
          steps == SelectSeq(r.log, LAMBDA x : x.ev \in {"call", "wait"})
      IN  /\ Len(EventsOf(r.log, "call")) <= 3
          /\ Len(ui.calls) <= 3
          /\ IsPrefix([k \in 1..Len(steps) |-> <<steps[k].ev, steps[k].ms>>],
                      << <<"call", 0>>, <<"wait", 1000>>, <<"call", 0>>,
                         <<"wait", 2000>>, <<"call", 0>> >>)
          /\ Len(waits) = Min(Len(ui.calls), 2)
          /\ InfoToasts = SubSeq(<< Toast("info", <<"Retrying...", "(1/3)">>),
                                    Toast("info", <<"Retrying...", "(2/3)">>) >>,
                                 1, Min(Len(ui.calls), 2))
          /\ ui.pc = "running" => ui.toasts = InfoToasts
          /\ ui.pc = "ready" =>
                /\ Len(ui.calls) = 3
                /\ Len(ui.toasts) = 3
                /\ SubSeq(ui.toasts, 1, 2) = InfoToasts
                /\ ui.toasts[3].level = "error"
                /\ Len(ErrorToasts) = 1
                /\ ~ui.isOptimizing
          /\ ui.pc \in {"running", "ready"}

C8_Witness ==
    /\ RunStarted
    /\ AllRetryableSoFar
    /\ ui.pc = "ready"
    /\ rt["client"].pc = "rejected"
    /\ Len(ui.calls) = 3
    /\ ui.calls[1].error # ui.calls[3].error
    /\ Len(ErrorToasts) = 1
    /\ SumMs(EventsOf(rt["client"].log, "wait")) = 3000


\* C22: on one page, over any sequence of clicks on the optimize control and
\* completions of pending requests, at most one handleOptimize run is
\* between setIsOptimizing(true) and setIsOptimizing(false), isOptimizing is
\* true exactly while a run is in flight, and an endpoint invocation is
\* outstanding only for that one run.
C22_OneRunInFlight ==
    ui.pc # "idle" =>
       /\ ui.inFlight \in {0, 1}
       /\ (ui.isOptimizing) <=> (ui.inFlight = 1)
       /\ rt["client"].pc = "pending" => ui.inFlight = 1

\* a later run of the same page is in flight with its request outstanding
C22_Witness ==
    /\ ui.pc = "running"
    /\ ui.succeeded >= 1
    /\ ui.inFlight = 1
    /\ rt["client"].pc = "pending"

\* a click in this state is turned down by input validation, by the trial
\* limit or by the missing configuration
ClaimRejected ==
    \/ ui.resumeText # "text"
    \/ ui.jobDescription # "text"
    \/ (~ui.user /\ ui.usageCount >= 3)
    \/ ~ui.configOk

\* C29: a run that set isOptimizing to true eventually resets it to false;
\* a click turned down by validation, trial limit or missing configuration
\* leaves isOptimizing false and starts no request; optimizedCV changes only
\* in a run whose endpoint invocation resolved, to the data it returned.
C29_IsOptimizingLifecycle ==
    /\ (ui.isOptimizing ~> ~ui.isOptimizing)
    /\ [][(~ui.isOptimizing /\ ClaimRejected) =>
            (~ui'.isOptimizing
               /\ rt'["client"].pc \notin {"loop", "pending", "waiting"})]_vars
    /\ [][ui'.optimizedCV # ui.optimizedCV =>
            (ui.isOptimizing /\ rt["client"].pc = "resolved"
               /\ ui'.optimizedCV = rt["client"].result)]_vars

\* a run that failed after a run that succeeded: isOptimizing is reset and
\* optimizedCV still holds the record of the earlier run
C29_Witness ==
    /\ ui.pc = "ready"
    /\ rt["client"].pc = "rejected"
    /\ ~ui.isOptimizing
    /\ ui.succeeded = 1
    /\ ui.optimizedCV = "cv1"

\* C14: for an anonymous user handleOptimize issues no endpoint request when
\* the usage count is 3 or more and redirects to /auth, so that over any
\* sequence of clicks in one browser session (clicks right after page load,
\* before the stored count has been read, included) at most 3 optimizations
\* succeed; a signed-in user is never blocked.
C14_TrialLimit ==
    ui.pc # "idle" =>
       /\ ~ui.session => ui.succeeded <= TrialLimit
       /\ ui.navigated => (ui.calls = <<>> /\ ui.pc = "ready")
       /\ ui.session => ~ui.navigated


(***************************************************************************)
(* SpecInvoker: optimizeCVWithAI and callGemini (optimize-cv/index.ts).    *)
(* The remote model provider is the environment: every outbound call gets  *)
(* one of ProviderResponses.  inv.calls lists the outbound calls made.     *)
(***************************************************************************)
ServerMaxRetriesFour == 3 + 1

\* retryRequest(async () => { ... }, 3, 1000) in optimizeCVWithAI
ServerMaxRetries == 3

ServerDelay == 1000

Response(net, ok, status, body, errStatus, errMsg, raw) ==
    [net |-> net, ok |-> ok, status |-> status, body |-> body,
     errStatus |-> errStatus, errMsg |-> errMsg, raw |-> raw]

\* net: fetch resolved; ok: response.ok; body: how the error body parses
\* ("error": JSON with an error member, "plain": JSON without one,
\*  "text": not JSON)
ProviderResponses ==
    { Response(FALSE, FALSE, 0, "text", "", <<>>, <<>>),
      Response(TRUE, TRUE, 200, "plain", "", <<>>, <<>>),
      Response(TRUE, FALSE, 404, "error", "NOT_FOUND",
               <<"models/gemini-2.0-flash-exp", "is", "not", "found", "for", "API", "version", "v1beta">>,
               <<"{error}">>),
      Response(TRUE, FALSE, 404, "text", "", <<>>, <<"Not", "Found">>),
      Response(TRUE, FALSE, 404, "text", "", <<>>, <<"model", "not", "found">>),
      Response(TRUE, FALSE, 429, "error", "RESOURCE_EXHAUSTED",
               <<"You", "exceeded", "your", "current", "quota">>, <<"{error}">>),
      Response(TRUE, FALSE, 500, "error", "INTERNAL", <<"Internal", "error">>, <<"{error}">>),
      Response(TRUE, FALSE, 403, "error", "PERMISSION_DENIED",
               <<"API", "key", "not", "valid.">>, <<"{error}">>),
      Response(TRUE, FALSE, 400, "error", "", <<>>, <<"{error:{}}">>),
      Response(TRUE, FALSE, 503, "plain", "", <<>>, <<"{}">>) }

QuotaText == <<"Gemini", "API", "quota", "exceeded.", "Please check your Google Cloud billing and quota limits. For more information: https://ai.google.dev/pricing">>

\* callGemini: resolves with the response body or throws; errorMessage is
\* what it builds for a response that is not ok
CallGemini(resp) ==
    LET errorMessage ==
          IF resp.body = "text"
            THEN <<"Gemini", "API", "error:", ToString(resp.status), "-">> \o resp.raw
          ELSE IF resp.body = "error"
            THEN (IF resp.errStatus = "RESOURCE_EXHAUSTED"
                       \/ Includes(resp.errMsg, <<"quota">>)
                    THEN QuotaText
                  ELSE IF resp.errMsg # <<>>
                    THEN <<"Gemini", "API", "error:">> \o resp.errMsg
                  ELSE <<"Gemini", "API", "error:">> \o resp.raw)
          ELSE <<"Gemini", "API", "error:">> \o resp.raw
    IN  IF ~resp.net
          THEN [ok |-> FALSE, data |-> "",
                err |-> JSError("TypeError", <<"fetch", "failed">>, 0)]
        ELSE IF ~resp.ok
          THEN [ok |-> FALSE, data |-> "", err |-> JSError("Error", errorMessage, 0)]
        ELSE [ok |-> TRUE, data |-> "aiData", err |-> JSNull]

FallbackOnAnyError(e) == e.kind = "error"

\* if (error instanceof Error && error.message.includes("not found"))
NeedsFallback(e) ==
    e.kind = "error" /\ e.mtype = "string" /\ Includes(e.mstr, <<"not", "found">>)

OutboundCall(model, attempt, settled, ok, err) ==
    [model |-> model, attempt |-> attempt, settled |-> settled, ok |-> ok, err |-> err]

InitInvoker ==
    /\ xt = Idle
    /\ dash = Idle
    /\ srv = Idle
    /\ ut = Idle
    /\ ex = Idle
    /\ up = Idle
    /\ rt = RtIdle
    /\ cls = Idle
    /\ ui = Idle
    /\ \E key \in BOOLEAN :
          inv = [pc |-> "start", hasKey |-> key, calls |-> <<>>,
                 result |-> "", thrown |-> JSNull]
    /\ nz = Idle

\* entry of optimizeCVWithAI: the key check, then retryRequest(fn, 3, 1000)
InvokerStart ==
    /\ inv.pc = "start"
    /\ IF inv.hasKey
         THEN /\ inv' = [inv EXCEPT !.pc = "running"]
              /\ rt' = [rt EXCEPT !["server"] =
                          RetryStart(ServerMaxRetries, ServerDelay, FALSE)]
         ELSE /\ inv' = [inv EXCEPT !.pc = "failed",
                           !.thrown = JSError("Error",
                              <<"Gemini", "API", "key", "not", "configured">>, 0)]
              /\ rt' = rt
    /\ UNCHANGED <<cls, ui, nz, srv, ut, ex, up, xt, dash>>

\* an engine attempt begins: callGemini(request, geminiKey, "gemini-2.0-flash-exp")
InvokerAttempt ==
    /\ inv.pc = "running"
    /\ rt["server"].pc = "loop"
    /\ rt["server"].attempt <= rt["server"].maxRetries
    /\ rt' = [rt EXCEPT !["server"] = RetryInvokeRec(@)]
    /\ inv' = [inv EXCEPT !.pc = "primary",
                 !.calls = Append(@, OutboundCall("gemini-2.0-flash-exp", rt["server"].attempt,
                                                  FALSE, FALSE, JSNull))]
    /\ UNCHANGED <<cls, ui, nz, srv, ut, ex, up, xt, dash>>

\* the record of the last outbound call, settled with a result
Settle(calls, res) ==
    [calls EXCEPT ![Len(calls)] =
        [@ EXCEPT !.settled = TRUE, !.ok = res.ok, !.err = res.err]]

\* the primary call settles: return, fall back, or rethrow
PrimaryResponds ==
    /\ inv.pc = "primary"
    /\ rt["server"].pc = "pending"
    /\ \E resp \in ProviderResponses :
          LET res == CallGemini(resp)
              done == Settle(inv.calls, res)
          IN  IF res.ok
                THEN /\ rt' = [rt EXCEPT !["server"] = RetryResolvedRec(@, res.data)]
                     /\ inv' = [inv EXCEPT !.pc = "running", !.calls = done]
              ELSE IF NeedsFallback(res.err)
                THEN /\ rt' = rt
                     /\ inv' = [inv EXCEPT !.pc = "fallback",
                                  !.calls = Append(done,
                                     OutboundCall("gemini-1.5-flash", rt["server"].attempt,
                                                  FALSE, FALSE, JSNull))]
              ELSE /\ rt' = [rt EXCEPT !["server"] = RetryRejectedRec(@, res.err)]
                   /\ inv' = [inv EXCEPT !.pc = "running", !.calls = done]
    /\ UNCHANGED <<cls, ui, nz, srv, ut, ex, up, xt, dash>>

\* the fallback call settles: its result is the result of the attempt
FallbackResponds ==
    /\ inv.pc = "fallback"
    /\ rt["server"].pc = "pending"
    /\ \E resp \in ProviderResponses :
          LET res == CallGemini(resp)
          IN  /\ rt' = [rt EXCEPT !["server"] =
                          IF res.ok THEN RetryResolvedRec(@, res.data)
                                    ELSE RetryRejectedRec(@, res.err)]
              /\ inv' = [inv EXCEPT !.pc = "running", !.calls = Settle(inv.calls, res)]
    /\ UNCHANGED <<cls, ui, nz, srv, ut, ex, up, xt, dash>>

InvokerRetryTimer ==
    /\ inv.pc = "running"
    /\ RetryTimer("server")

InvokerRetryExhausted ==
    /\ inv.pc = "running"
    /\ RetryExhausted("server")

\* retryRequest settled: optimizeCVWithAI returns its value or throws its error
InvokerDone ==
    /\ inv.pc = "running"
    /\ rt["server"].pc \in {"resolved", "rejected"}
    /\ inv' = IF rt["server"].pc = "resolved"
                THEN [inv EXCEPT !.pc = "returned", !.result = rt["server"].result]
                ELSE [inv EXCEPT !.pc = "failed", !.thrown = rt["server"].thrown]
    /\ UNCHANGED <<rt, cls, ui, nz, srv, ut, ex, up, xt, dash>>

NextInvoker ==
    \/ InvokerStart
    \/ InvokerAttempt
    \/ PrimaryResponds
    \/ FallbackResponds
    \/ InvokerRetryTimer
    \/ InvokerRetryExhausted
    \/ InvokerDone

SpecInvoker == InitInvoker /\ [][NextInvoker]_vars

\* the outbound calls of engine attempt k
CallsOfAttempt(k) == SelectSeq(inv.calls, LAMBDA c : c.attempt = k)

\* C9: in every engine attempt the first outbound call goes to the primary
\* model; a second call exists exactly when the primary call failed with a
\* message containing 'not found', it goes to the secondary model and its
\* failure is the failure of the attempt; an attempt makes 1 or 2 calls, a
\* run at most 6, and a primary failure without 'not found' leaves the
\* attempt with exactly 1 call.
C9_ModelFallback ==
    inv.pc # "idle" =>
      /\ Len(inv.calls) <= 6
      /\ \A i \in 1..Len(inv.calls) : inv.calls[i].attempt \in 1..3
      /\ \A k \in 1..3 :
           LET cs == CallsOfAttempt(k)
               threw == SelectSeq(rt["server"].log,
                                  LAMBDA x : x.ev = "threw" /\ x.attempt = k)
           IN  /\ Len(cs) <= 2
               /\ (PosOf(rt["server"].log, "call", k) # 0 => Len(cs) >= 1)
               /\ Len(cs) >= 1 =>
                    /\ cs[1].model = "gemini-2.0-flash-exp"
                    /\ (Len(cs) = 2 <=>
                          (cs[1].settled /\ ~cs[1].ok
                             /\ Includes(cs[1].err.mstr, <<"not", "found">>)))
               /\ Len(cs) = 2 =>
                    /\ cs[2].model = "gemini-1.5-flash"
                    /\ (cs[2].settled /\ ~cs[2].ok) =>
                          (Len(threw) = 1 /\ threw[1].err = cs[2].err)
                    /\ ~cs[2].settled => Len(threw) = 0
               /\ Len(threw) <= 1

C9_Witness ==
    /\ inv.pc = "failed"
    /\ Len(inv.calls) = 6
    /\ Len(CallsOfAttempt(1)) = 2
    /\ Len(CallsOfAttempt(3)) = 2
    /\ inv.thrown = inv.calls[6].err


\* an outbound call that failed with a permanent provider error: quota
\* exhausted or authorization refused
PermanentFailure(i) ==
    /\ inv.calls[i].settled
    /\ ~inv.calls[i].ok
    /\ inv.calls[i].err.kind = "error"
    /\ \/ inv.calls[i].err.mstr = <<"Gemini", "API", "quota", "exceeded.", "Please check your Google Cloud billing and quota limits. For more information: https://ai.google.dev/pricing">>
       \/ inv.calls[i].err.mstr = <<"Gemini", "API", "error:", "API", "key", "not", "valid.">>

\* C20: a permanent provider error (quota / RESOURCE_EXHAUSTED, authorization
\* failure) inside optimizeCVWithAI ends the request: no outbound call
\* follows it, no backoff is waited after it, a request whose first call
\* fails so has exactly one engine attempt, and the error returned is that
\* error (for quota, the quota message).
C20_PermanentNotRetried ==
    inv.pc # "idle" =>
       \A i \in 1..Len(inv.calls) :
          PermanentFailure(i) =>
             /\ Len(inv.calls) = i
             /\ \A k \in 1..Len(rt["server"].log) :
                   /\ rt["server"].log[k].ev = "wait"
                        => rt["server"].log[k].attempt < inv.calls[i].attempt
                   /\ rt["server"].log[k].ev = "call"
                        => rt["server"].log[k].attempt <= inv.calls[i].attempt
             /\ i = 1 => Len(EventsOf(rt["server"].log, "call")) = 1
             /\ inv.pc = "failed" => inv.thrown = inv.calls[i].err


(***************************************************************************)
(* SpecNormalize: the parse step of the optimize-cv handler.  The model    *)
(* text is a sequence of tokens: a triple-backtick fence, the tag json,    *)
(* one whitespace character, the text of one JSON object, a word of prose. *)
(* Backticks occur only in fence tokens.                                   *)
(***************************************************************************)
\* three backticks
Fence == "<fence>"

Tag == "json"

Ws == " "

Obj == "{cv}"

Prose == "Here"

\* the texts the model can return
ModelTexts ==
    SeqsUpTo({Fence, Tag, Ws, Obj, Prose}, MaxTextLen)
    \cup { <<Prose, Ws, Prose, Ws, Fence, Tag, Ws, Obj, Ws, Fence>>,
           <<Fence, Tag, Ws, Obj, Ws, Fence, Ws, Prose, Ws, Prose>>,
           <<Prose, Ws, Fence, Ws, Obj, Ws, Fence, Ws, Fence, Tag, Obj, Fence>>,
           <<Fence, Prose, Fence, Ws, Fence, Tag, Ws, Obj, Fence>>,
           <<Ws, Obj, Ws, Ws>> }

AllWs(s, a, b) == \A k \in a..b : s[k] = Ws

\* a way /<fence>(?:json)?\s*([\s\S]*?)\s*<fence>/ matches s: the opening fence at i,
\* t tokens of tag, w of leading whitespace, c captured, then \s* and a fence
RegexMatches(s, i, t, w, c) ==
    /\ s[i] = Fence
    /\ (t = 1 => (i + 1 <= Len(s) /\ s[i + 1] = Tag))
    /\ i + t + w <= Len(s)
    /\ AllWs(s, i + t + 1, i + t + w)
    /\ \E f \in (i + t + w + c + 1)..Len(s) :
          s[f] = Fence /\ AllWs(s, i + t + w + c + 1, f - 1)

PrefersGreedyCapture(m, n) ==
    \/ m[1] < n[1]
    \/ m[1] = n[1] /\ m[2] > n[2]
    \/ m[1] = n[1] /\ m[2] = n[2] /\ m[3] > n[3]
    \/ m[1] = n[1] /\ m[2] = n[2] /\ m[3] = n[3] /\ m[4] >= n[4]

\* the order a backtracking matcher tries them in: leftmost start, the
\* optional tag taken, \s* greedy, the capture lazy
Prefers(m, n) ==
    \/ m[1] < n[1]
    \/ m[1] = n[1] /\ m[2] > n[2]
    \/ m[1] = n[1] /\ m[2] = n[2] /\ m[3] > n[3]
    \/ m[1] = n[1] /\ m[2] = n[2] /\ m[3] = n[3] /\ m[4] <= n[4]

\* const jsonString = jsonMatch ? jsonMatch[1] : optimizedContent
JsonString(s) ==
    LET ms ==
          { m \in UNION { UNION { UNION { { <<i, t, w, c>> : c \in 0..(Len(s) - i - t - w) } :
                                            w \in 0..(Len(s) - i - t) } :
                                    t \in 0..1 } :
                            i \in {k \in 1..Len(s) : s[k] = Fence} } :
              RegexMatches(s, m[1], m[2], m[3], m[4]) }
    IN  IF ms = {} THEN s
        ELSE LET m == CHOOSE x \in ms : \A y \in ms : Prefers(x, y)
             IN  SubSeq(s, m[1] + m[2] + m[3] + 1, m[1] + m[2] + m[3] + m[4])

RECURSIVE TrimLeft(_)
TrimLeft(s) == IF s # <<>> /\ Head(s) = Ws THEN TrimLeft(Tail(s)) ELSE s

RECURSIVE TrimRight(_)
TrimRight(s) ==
    IF s # <<>> /\ s[Len(s)] = Ws THEN TrimRight(SubSeq(s, 1, Len(s) - 1)) ELSE s

\* JSON.parse: one JSON value, whitespace allowed around it
JsonParse(s) ==
    IF TrimRight(TrimLeft(s)) = <<Obj>>
      THEN [ok |-> TRUE, value |-> Obj]
      ELSE [ok |-> FALSE, value |-> ""]

InitNormalize ==
    /\ xt = Idle
    /\ dash = Idle
    /\ srv = Idle
    /\ ut = Idle
    /\ ex = Idle
    /\ up = Idle
    /\ rt = RtIdle
    /\ cls = Idle
    /\ ui = Idle
    /\ inv = Idle
    /\ \E text \in ModelTexts :
          nz = [pc |-> "content", text |-> text, parsedCV |-> "",
                thrown |-> <<>>, status |-> 0, error |-> <<>>]

\* lines 266-302: the content check, the fence match and JSON.parse
ParseStep ==
    /\ nz.pc = "content"
    /\ nz' = IF nz.text = <<>>
               THEN [nz EXCEPT !.pc = "threw",
                       !.thrown = <<"No", "content", "returned", "from", "Gemini", "AI.">>]
             ELSE LET res == JsonParse(JsonString(nz.text))
                  IN  IF res.ok
                        THEN [nz EXCEPT !.pc = "parsed", !.parsedCV = res.value]
                        ELSE [nz EXCEPT !.pc = "threw",
                                !.thrown = <<"Failed", "to", "parse", "AI", "response">>]
    /\ UNCHANGED <<rt, cls, ui, inv, srv, ut, ex, up, xt, dash>>

\* the outer catch: status 500 with { error: error.message }
RespondError ==
    /\ nz.pc = "threw"
    /\ nz' = [nz EXCEPT !.pc = "responded", !.status = 500, !.error = nz.thrown]
    /\ UNCHANGED <<rt, cls, ui, inv, srv, ut, ex, up, xt, dash>>

NextNormalize == ParseStep \/ RespondError

SpecNormalize == InitNormalize /\ [][NextNormalize]_vars

\* the positions of the fences of a text
FencePositions(s) == {k \in 1..Len(s) : s[k] = "<fence>"}

SetMin(S) == CHOOSE x \in S : \A y \in S : x <= y

\* the interior of the first fenced block, without its json tag
FirstBlockInterior(s) ==
    LET a == SetMin(FencePositions(s))
        b == SetMin(FencePositions(s) \ {a})
        inner == SubSeq(s, a + 1, b - 1)
    IN  IF inner # <<>> /\ Head(inner) = "json" THEN Tail(inner) ELSE inner

\* a bare candidate is valid JSON when it is one object, whitespace aside
ValidJson(c) == SelectSeq(c, LAMBDA x : x # " ") = <<"{cv}">>

\* the candidate the claim describes
ClaimCandidate(s) ==
    IF Cardinality(FencePositions(s)) >= 2 THEN FirstBlockInterior(s) ELSE s

\* C10: with a fenced block in the text the outcome is that of parsing the
\* interior of the first block alone, without one it is that of parsing the
\* whole text; a candidate that is not valid JSON makes the request fail
\* with the parse error (status 500, no record).
C10_Normalization ==
    (nz.pc \in {"parsed", "threw", "responded"} /\ nz.text # <<>>) =>
       /\ ValidJson(ClaimCandidate(nz.text)) =>
             (nz.pc = "parsed" /\ nz.parsedCV = "{cv}")
       /\ ~ValidJson(ClaimCandidate(nz.text)) =>
             /\ nz.pc \in {"threw", "responded"}
             /\ nz.parsedCV = ""
             /\ nz.thrown = <<"Failed", "to", "parse", "AI", "response">>
             /\ nz.pc = "responded" => (nz.status = 500 /\ nz.error = nz.thrown)

C10_Witness ==
    /\ nz.pc = "parsed"
    /\ nz.text = <<"Here", " ", "Here", " ", "<fence>", "json", " ", "{cv}", " ", "<fence>">>
    /\ nz.parsedCV = "{cv}"


(***************************************************************************)
(* SpecHandler: the Deno.serve handler of optimize-cv, one request from    *)
(* arrival to response.  optimizeCVWithAI, supabase.auth.getUser and the   *)
(* cv_optimizations insert are the environment.  The module-level          *)
(* createClient(supabaseUrl, supabaseKey) throws when either is empty, so  *)
(* a handler that serves requests has both.                                *)
(***************************************************************************)
\* a record without the matchScore member
NoCV == [hasScore |-> FALSE, matchScore |-> 0]

\* the request: method; the content-type header, <<>> when absent; the body
\* text (nothing, whitespace, text that is not JSON, or the JSON text of
\* null, a number, an array, a string or an object) and how the members of
\* an object read; whether GEMINI_API_KEY is set; the authorization header
InitHandler ==
    /\ xt = Idle
    /\ dash = Idle
    /\ rt = RtIdle
    /\ cls = Idle
    /\ ui = Idle
    /\ inv = Idle
    /\ nz = Idle
    /\ ut = Idle
    /\ ex = Idle
    /\ up = Idle
    /\ LET FieldInputs == {"absent", "empty", "text"}
           RequestBody(text, resumeText, jobDescription, jobRole) ==
               [text |-> text, resumeText |-> resumeText,
                jobDescription |-> jobDescription, jobRole |-> jobRole]
           RequestBodies ==
               { RequestBody(t, "absent", "absent", "absent") :
                   t \in {"empty", "blank", "malformed", "null", "number", "array",
                          "string"} }
               \cup { RequestBody("object", r, j, role) :
                        r \in FieldInputs, j \in FieldInputs, role \in {"absent", "text"} }
       IN  \E m \in {"OPTIONS", "POST"},
              ct \in { <<>>, <<"text/plain">>, <<"application/json">>,
                       <<"application/json", ";", "charset=utf-8">> },
              b \in RequestBodies, key \in BOOLEAN,
              auth \in {"none", "Bearer ", "Bearer jwt", "jwt"} :
              srv = [pc |-> "request", method |-> m, contentType |-> ct, body |-> b,
                     hasKey |-> key, authHeader |-> auth, modelCalls |-> 0,
                     ai |-> "none", parsed |-> FALSE, parsedCV |-> NoCV, userId |-> "",
                     authResult |-> "none", insertResult |-> "none", rows |-> <<>>,
                     thrown |-> <<>>, status |-> 0, error |-> <<>>,
                     response |-> [kind |-> "none", cv |-> NoCV]]

\* new Response(JSON.stringify({ error }), { status })
RespondWithError(s, status, text) ==
    [s EXCEPT !.pc = "responded", !.status = status, !.error = text,
              !.response = [kind |-> "error", cv |-> NoCV]]

\* new Response(JSON.stringify(parsedCV), { status: 200 })
RespondWithRecord(s) ==
    [s EXCEPT !.pc = "responded", !.status = 200,
              !.response = [kind |-> "record", cv |-> s.parsedCV]]

Throw(s, text) == [s EXCEPT !.pc = "threw", !.thrown = text]

\* lines 188-253: the preflight answer, the request checks and the start of
\* optimizeCVWithAI; destructuring a null body throws a TypeError
HandleRequest ==
    /\ srv.pc = "request"
    /\ LET b == srv.body
           \* !contentType || !contentType.includes("application/json")
           badContentType ==
               srv.contentType = <<>> \/ ~Includes(srv.contentType, <<"application/json">>)
           \* !resumeText || !jobDescription on the destructured members
           missingField == b.resumeText # "text" \/ b.jobDescription # "text"
       IN  srv' =
             IF srv.method = "OPTIONS"
               THEN [srv EXCEPT !.pc = "responded", !.status = 200,
                                !.response = [kind |-> "null", cv |-> NoCV]]
             ELSE IF badContentType
               THEN RespondWithError(srv, 400,
                      <<"Content-Type", "must", "be", "application/json">>)
             ELSE IF b.text \in {"empty", "blank"}
               THEN RespondWithError(srv, 400,
                      <<"Request", "body", "is", "empty.", "Please provide resumeText and jobDescription.">>)
             ELSE IF b.text = "malformed"
               THEN RespondWithError(srv, 400,
                      <<"Invalid", "JSON", "in", "request", "body.", "Please ensure the body contains valid JSON with resumeText and jobDescription fields.">>)
             ELSE IF b.text = "null"
               THEN Throw(srv, <<"Cannot", "destructure", "property", "'resumeText'", "of", "'body'", "as", "it", "is", "null.">>)
             ELSE IF missingField
               THEN RespondWithError(srv, 400,
                      <<"Resume", "text", "and", "job", "description", "are", "required">>)
             ELSE IF ~srv.hasKey
               THEN RespondWithError(srv, 500,
                      <<"Gemini", "API", "key", "not", "configured.", "Please set GEMINI_API_KEY as a secret in Supabase">>)
             ELSE [srv EXCEPT !.pc = "model", !.modelCalls = @ + 1]
    /\ UNCHANGED <<rt, cls, ui, inv, nz, ut, ex, up, xt, dash>>

\* if (supabaseUrl && supabaseKey && authHeader) { token =
\* authHeader.startsWith("Bearer ") ? authHeader.substring(7) : authHeader;
\* if (token) getUser(token) }
AsksForUser(h) ==
    LET token == IF h = "Bearer " THEN "" ELSE IF h = "Bearer jwt" THEN "jwt" ELSE h
    IN  h # "none" /\ token # ""

\* lines 253-322: optimizeCVWithAI throws the last engine error or resolves
\* with the provider's body (with a text part, with an error member, with an
\* empty candidates array, blocked by the safety filter, or with none of
\* these); the content is extracted and parsed; then getUser is awaited, or
\* the record is returned at once
ModelSettles ==
    /\ srv.pc = "model"
    /\ LET AiOutcome(kind, shape, text, cv, msg) ==
               [kind |-> kind, shape |-> shape, text |-> text, cv |-> cv, msg |-> msg]
           \* the matchScore member of the JSON object the model wrote
           ModelCVs ==
               {NoCV} \cup { [hasScore |-> TRUE, matchScore |-> n] :
                               n \in {-1, 0, 1, 100, 101} }
           \* the texts the model wraps the object in
           HandlerTexts ==
               { <<Obj>>, <<Fence, Tag, Ws, Obj, Ws, Fence>>, <<Prose, Ws, Obj>>,
                 <<Fence, Prose, Fence, Ws, Fence, Tag, Ws, Obj, Fence>> }
           AiOutcomes ==
               { AiOutcome("threw", "", <<>>, NoCV, CallGemini(resp).err.mstr) :
                   resp \in {r \in ProviderResponses : ~CallGemini(r).ok} }
               \cup { AiOutcome("data", sh, <<>>, NoCV, <<>>) :
                        sh \in {"error", "empty", "safety", "none"} }
               \cup { AiOutcome("data", "text", t, cv, <<>>) :
                        t \in HandlerTexts, cv \in ModelCVs }
           \* lines 266-289: the errors thrown for a body without a text part
           NoContentError(shape) ==
               IF shape = "error" THEN <<"Gemini", "API", "error:", "{error}">>
               ELSE IF shape = "empty"
                 THEN <<"Gemini", "returned", "no", "candidates.", "Check API key and model availability.">>
               ELSE IF shape = "safety"
                 THEN <<"Content", "was", "blocked", "by", "Gemini", "safety", "filters.", "Try with different input.">>
               ELSE <<"No", "content", "returned", "from", "Gemini", "AI.">>
       IN  \E out \in AiOutcomes :
              srv' =
                IF out.kind = "threw"
                  THEN Throw([srv EXCEPT !.ai = "threw"], out.msg)
                ELSE IF out.shape # "text"
                  THEN Throw([srv EXCEPT !.ai = "data"], NoContentError(out.shape))
                ELSE IF ~JsonParse(JsonString(out.text)).ok
                  THEN Throw([srv EXCEPT !.ai = "data"],
                             <<"Failed", "to", "parse", "AI", "response">>)
                ELSE LET s == [srv EXCEPT !.ai = "data", !.parsed = TRUE,
                                          !.parsedCV = out.cv]
                     IN  IF AsksForUser(srv.authHeader)
                           THEN [s EXCEPT !.pc = "auth"]
                           ELSE RespondWithRecord(s)
    /\ UNCHANGED <<rt, cls, ui, inv, nz, ut, ex, up, xt, dash>>

\* lines 322-357: getUser resolved with a user, resolved with an error, or
\* threw; only with a user is the insert awaited
AuthSettles ==
    /\ srv.pc = "auth"
    /\ \E r \in {"user", "error", "threw"} :
          srv' = IF r = "user"
                   THEN [srv EXCEPT !.pc = "insert", !.authResult = r, !.userId = "u1"]
                   ELSE RespondWithRecord([srv EXCEPT !.authResult = r])
    /\ UNCHANGED <<rt, cls, ui, inv, nz, ut, ex, up, xt, dash>>

\* match_score: parsedCV.matchScore || null
MatchScoreColumn(cv) ==
    IF cv.hasScore /\ cv.matchScore # 0
      THEN [null |-> FALSE, n |-> cv.matchScore]
      ELSE [null |-> TRUE, n |-> 0]

\* the insert resolves without error only for a row the table accepts:
\* match_score INTEGER CHECK (match_score >= 0 AND match_score <= 100)
InsertOutcomes(cv) ==
    LET col == MatchScoreColumn(cv)
    IN  {"error", "threw"}
        \cup (IF col.null \/ (col.n >= 0 /\ col.n <= 100) THEN {"ok"} ELSE {})

InsertFailureIsFatal(s, r) ==
    IF r = "ok"
      THEN RespondWithRecord(
             [s EXCEPT !.insertResult = r,
                       !.rows = Append(@, [user_id |-> s.userId,
                                           job_role |-> s.body.jobRole,
                                           optimized_content |-> s.parsedCV,
                                           match_score |-> MatchScoreColumn(s.parsedCV)])])
      ELSE Throw([s EXCEPT !.insertResult = r], <<"insert", "failed">>)

\* lines 339-365: the insert settled; its error is logged, never rethrown
AfterInsert(s, r) ==
    RespondWithRecord(
      [s EXCEPT !.insertResult = r,
                !.rows = IF r = "ok"
                           THEN Append(@, [user_id |-> s.userId,
                                           job_role |-> s.body.jobRole,
                                           optimized_content |-> s.parsedCV,
                                           match_score |-> MatchScoreColumn(s.parsedCV)])
                           ELSE @])

InsertSettles ==
    /\ srv.pc = "insert"
    /\ \E r \in InsertOutcomes(srv.parsedCV) : srv' = AfterInsert(srv, r)
    /\ UNCHANGED <<rt, cls, ui, inv, nz, ut, ex, up, xt, dash>>

\* lines 366-386: the outer catch answers 500 with error.message; where the
\* runtime has no global named process the catch block itself throws and the
\* runtime answers 500 for the rejected handler
HandlerCatch ==
    /\ srv.pc = "threw"
    /\ \E processDefined \in BOOLEAN :
          srv' = IF processDefined
                   THEN RespondWithError(srv, 500, srv.thrown)
                   ELSE [srv EXCEPT !.pc = "responded", !.status = 500,
                                    !.error = <<"Internal", "Server", "Error">>,
                                    !.response = [kind |-> "runtime", cv |-> NoCV]]
    /\ UNCHANGED <<rt, cls, ui, inv, nz, ut, ex, up, xt, dash>>

NextHandler ==
    \/ HandleRequest
    \/ ModelSettles
    \/ AuthSettles
    \/ InsertSettles
    \/ HandlerCatch

SpecHandler == InitHandler /\ [][NextHandler]_vars

\* C11: every record the endpoint returns with status 200 has matchScore
\* absent or within [0,100]; a model output whose matchScore lies outside
\* that range is not passed through with status 200.
C11_MatchScoreInRange ==
    (srv.pc = "responded" /\ srv.status = 200 /\ srv.response.kind = "record") =>
       (srv.response.cv.hasScore =>
          (srv.response.cv.matchScore >= 0 /\ srv.response.cv.matchScore <= 100))

\* the request supplies both resumeText and jobDescription: a JSON content
\* type and a JSON object whose two members are non-empty
SuppliesBoth ==
    /\ Includes(srv.contentType, <<"application/json">>)
    /\ srv.body.text = "object"
    /\ srv.body.resumeText = "text"
    /\ srv.body.jobDescription = "text"

\* C12: every POST whose body does not supply both resumeText and
\* jobDescription (wrong content type, empty body, malformed JSON, valid JSON
\* that is not an object with those members, such as null, or empty member
\* values) is answered 400 with an error string and no outbound model call;
\* a missing API key or a provider failure is answered 500; 200 is returned
\* only with a parsed record; a POST gets no other status.
C12_StatusContract ==
    (srv.pc # "idle" /\ srv.method = "POST") =>
       /\ ~SuppliesBoth => srv.modelCalls = 0
       /\ srv.pc = "responded" =>
            /\ srv.status \in {200, 400, 500}
            /\ ~SuppliesBoth =>
                 (srv.status = 400 /\ srv.error # <<>> /\ srv.response.kind = "error")
            /\ (SuppliesBoth /\ (~srv.hasKey \/ srv.ai = "threw")) => srv.status = 500
            /\ srv.status = 200 =>
                 (srv.parsed /\ srv.response = [kind |-> "record", cv |-> srv.parsedCV])

\* C24: the persisted match_score equals the record's matchScore whenever
\* the record has one, the value 0 included; match_score is null if and only
\* if the record has no matchScore.
C24_ZeroScorePersisted ==
    \A i \in 1..Len(srv.rows) :
       LET row == srv.rows[i]
       IN  /\ (row.match_score.null) <=> (~row.optimized_content.hasScore)
           /\ row.optimized_content.hasScore =>
                 row.match_score.n = row.optimized_content.matchScore

(***************************************************************************)
(* SpecCollaborators: an optimization seen from both ends, the handler     *)
(* after the model output is parsed and handleOptimize after the endpoint  *)
(* answered; a behaviour is a behaviour of the handler or of the page.     *)
(***************************************************************************)
SpecCollaborators ==
    (InitHandler \/ InitOptimize) /\ [][NextHandler \/ NextOptimize]_vars

\* the endpoint invocation of the current click resolved with a record and
\* handleOptimize went on past setOptimizedCV
EndpointSucceeded ==
    /\ ui.pc \in {"usage", "refresh", "ready"}
    /\ rt["client"].pc = "resolved"

\* C13: once the model output is parsed, a failure of the cv_optimizations
\* insert (returned error or thrown) or of the user-token validation still
\* yields 200 with the parsed record; on the client, once the endpoint
\* succeeded, a failure of increment_usage or of the usage re-read still
\* leaves optimizedCV set, shows the success notice and no error notice, and
\* resets isOptimizing to false.
C13_CollaboratorFailuresTolerated ==
    /\ (srv.pc # "idle" /\ srv.parsed) =>
          /\ srv.pc \in {"auth", "insert", "responded"}
          /\ srv.pc = "responded" =>
                /\ srv.status = 200
                /\ srv.response = [kind |-> "record", cv |-> srv.parsedCV]
    /\ (ui.pc # "idle" /\ EndpointSucceeded) =>
          /\ ui.optimizedCV = rt["client"].result
          /\ ui.optimizedCV # "none"
          /\ ErrorToasts = <<>>
          /\ ui.pc = "ready" =>
                /\ ~ui.isOptimizing
                /\ ui.toasts # <<>>
                /\ ui.toasts[Len(ui.toasts)] =
                     Toast("success", <<"CV optimized successfully!">>)

C13_Witness ==
    /\ ui.pc = "ready"
    /\ EndpointSucceeded
    /\ ui.usageResult \in {"rpc-threw", "read-threw"}
    /\ ui.optimizedCV = "cv1"
    /\ ~ui.isOptimizing
    /\ Len(SelectSeq(ui.toasts, LAMBDA t : t.level = "success")) = 1

(***************************************************************************)
(* SpecUsage: concurrent calls of the database function increment_usage    *)
(* from the sessions of one or two browsers, anonymous or signed in.       *)
(* Every call is a transaction of its own at the default isolation level:  *)
(* its SELECT sees the rows committed so far, and its UPDATE or INSERT     *)
(* takes effect when it commits.  An INSERT of a session_id that a         *)
(* committed row already has raises unique_violation.                      *)
(***************************************************************************)
\* a row of usage_tracking
UsageRow(id, session_id, user_id, usage_count) ==
    [id |-> id, session_id |-> session_id, user_id |-> user_id,
     usage_count |-> usage_count]

\* the table before the calls has no row, or one of session s1; every call
\* carries its p_session_id and p_user_id (user?.id || null) and starts at
\* its SELECT with v_record_id unset
InitUsage ==
    /\ xt = Idle
    /\ dash = Idle
    /\ rt = RtIdle
    /\ cls = Idle
    /\ ui = Idle
    /\ inv = Idle
    /\ nz = Idle
    /\ srv = Idle
    /\ ex = Idle
    /\ up = Idle
    /\ \E k \in 1..MaxCalls,
          rows \in { {} } \cup { {UsageRow("r0", "s1", u, n)} :
                                   u \in {"null", "u1"}, n \in {0, 2} },
          sessions \in [1..MaxCalls -> {"s1", "s2"}],
          users \in [1..MaxCalls -> {"null", "u1"}] :
          /\ \A i \in (k + 1)..MaxCalls : sessions[i] = "s1" /\ users[i] = "null"
          /\ ut = [pc |-> "run", initial |-> rows, rows |-> rows,
                   calls |-> [i \in 1..k |->
                                [pc |-> "select", v_record_id |-> "null",
                                 p_session_id |-> sessions[i],
                                 p_user_id |-> users[i]]]]

\* SELECT id INTO v_record_id ... WHERE (session_id = p_session_id OR
\* user_id = p_user_id) LIMIT 1; a comparison with NULL is not true
UsageSelect(i) ==
    /\ ut.pc = "run"
    /\ ut.calls[i].pc = "select"
    /\ LET found ==
             { row \in ut.rows :
                 \/ row.session_id = ut.calls[i].p_session_id
                 \/ (ut.calls[i].p_user_id # "null" /\ row.user_id # "null"
                       /\ row.user_id = ut.calls[i].p_user_id) }
       IN  IF found = {}
             THEN ut' = [ut EXCEPT !.calls[i].pc = "insert"]
             ELSE \E row \in found :
                    ut' = [ut EXCEPT !.calls[i].pc = "update",
                                     !.calls[i].v_record_id = row.id]
    /\ UNCHANGED <<rt, cls, ui, inv, nz, srv, ex, up, xt, dash>>

\* UPDATE ... SET usage_count = usage_count + 1, user_id =
\* COALESCE(user_id, p_user_id) ... WHERE id = v_record_id
UsageUpdate(i) ==
    /\ ut.pc = "run"
    /\ ut.calls[i].pc = "update"
    /\ ut' = [ut EXCEPT
                !.rows = { IF row.id = ut.calls[i].v_record_id
                             THEN [row EXCEPT !.usage_count = @ + 1,
                                              !.user_id = IF @ # "null" THEN @
                                                          ELSE ut.calls[i].p_user_id]
                             ELSE row : row \in ut.rows },
                !.calls[i].pc = "done"]
    /\ UNCHANGED <<rt, cls, ui, inv, nz, srv, ex, up, xt, dash>>

\* INSERT INTO usage_tracking (session_id, user_id, usage_count, last_used_at)
\* VALUES (p_session_id, p_user_id, 1, NOW()), under session_id TEXT UNIQUE
UsageInsert(i) ==
    /\ ut.pc = "run"
    /\ ut.calls[i].pc = "insert"
    /\ ut' = IF \E row \in ut.rows : row.session_id = ut.calls[i].p_session_id
               THEN [ut EXCEPT !.calls[i].pc = "error"]
               ELSE [ut EXCEPT
                       !.rows = @ \cup {UsageRow("r" \o ToString(i),
                                                 ut.calls[i].p_session_id,
                                                 ut.calls[i].p_user_id, 1)},
                       !.calls[i].pc = "done"]
    /\ UNCHANGED <<rt, cls, ui, inv, nz, srv, ex, up, xt, dash>>

NextUsage ==
    \E i \in 1..MaxCalls :
       /\ ut.pc = "run"
       /\ i \in DOMAIN ut.calls
       /\ (UsageSelect(i) \/ UsageUpdate(i) \/ UsageInsert(i))

SpecUsage == InitUsage /\ [][NextUsage]_vars

SessionRows(rows) == {row \in rows : row.session_id = "s1"}

\* the usage_count of the session before the calls, 0 without a row
InitialCount ==
    IF SessionRows(ut.initial) = {} THEN 0
    ELSE (CHOOSE row \in SessionRows(ut.initial) : TRUE).usage_count

AllCallsSettled ==
    \A i \in DOMAIN ut.calls : ut.calls[i].pc \in {"done", "error"}

\* C15: increment-or-create is atomic: for any interleaving of k calls of
\* increment_usage with the same session id (the case in which no row exists
\* yet included) every call completes without error, exactly one row exists
\* for the session afterwards and its usage_count has grown by exactly k.
C15_AtomicIncrement ==
    (ut.pc # "idle" /\ \A c \in DOMAIN ut.calls : ut.calls[c].p_session_id = "s1") =>
       /\ \A i \in DOMAIN ut.calls : ut.calls[i].pc # "error"
       /\ AllCallsSettled =>
            /\ Cardinality(SessionRows(ut.rows)) = 1
            /\ \A row \in SessionRows(ut.rows) :
                  row.usage_count = InitialCount + Len(ut.calls)

\* C30: after any sequence and interleaving of increment_usage calls, from
\* anonymous sessions and from users signed in on several sessions, no two
\* usage_tracking rows share a session_id and no two rows carry the same
\* non-null user_id, so that a lookup by user_id and a lookup by session_id
\* each match at most one row.
C30_UsageKeysUnique ==
    ut.pc # "idle" =>
       \A r1, r2 \in ut.rows :
          r1 # r2 =>
             /\ r1.session_id # r2.session_id
             /\ (r1.user_id # "null" => r1.user_id # r2.user_id)

(***************************************************************************)
(* SpecExport: a download click (CVPreview or Dashboard handleDownload)    *)
(* followed by generatePDF or generateDOCX, section by section.  Lengths   *)
(* are in tenths of a millimetre.  A text is known by the field it comes   *)
(* from and by the number of lines doc.splitTextToSize breaks it into.     *)
(***************************************************************************)
\* const margin = 20
Margin == 200

\* doc.internal.pageSize.getHeight() of new jsPDF(): A4, 297.00008 mm
PageHeight == 2970

\* yPosition += 5 after a text and after a section
Gap == 50

\* an optional array of the record: skills, experience (per entry the
\* wrapped line count of each highlight), education
Listing(present, entries) == [present |-> present, entries |-> entries]

\* if (cvData.header)
HasHeader(cv) == cv.header.present

\* if (cvData.summary)
HasSummary(cv) == cv.summary.kind = "text"

HasSkillsWhenPresent(cv) == cv.skills.present

\* if (cvData.skills && cvData.skills.length > 0)
HasSkills(cv) == cv.skills.present /\ Len(cv.skills.entries) > 0

\* if (cvData.experience && cvData.experience.length > 0)
HasExperience(cv) == cv.experience.present /\ Len(cv.experience.entries) > 0

\* if (cvData.education && cvData.education.length > 0)
HasEducation(cv) == cv.education.present /\ Len(cv.education.entries) > 0

\* lines.forEach of addText on the canvas c (cursor y, page, lines drawn):
\* if (yPosition > pageHeight - 30) { addPage; yPosition = margin },
\* doc.text(line, margin, yPosition), yPosition += fontSize * 0.4.  The
\* iterations are taken a page at a time: after the test of the first one,
\* fit lines are drawn before the test next succeeds.
RECURSIVE AddLines(_, _, _, _)
AddLines(c, text, n, fontSize) ==
    IF n = 0 THEN c
    ELSE LET d == IF c.y > PageHeight - 300
                    THEN [c EXCEPT !.y = Margin, !.page = @ + 1]
                    ELSE c
             room == (PageHeight - 300 - d.y) \div (fontSize * 4) + 1
             fit == IF n < room THEN n ELSE room
         IN  AddLines([d EXCEPT !.y = @ + fit * (fontSize * 4),
                                !.ops = @ \o [k \in 1..fit |->
                                          [text |-> text, x |-> Margin,
                                           y |-> d.y + (k - 1) * (fontSize * 4),
                                           page |-> d.page]]],
                      text, n - fit, fontSize)

\* yPosition += dy
Advance(c, dy) == [c EXCEPT !.y = @ + dy]

\* addText(text, fontSize): the wrapped lines, then yPosition += 5
AddText(c, text, n, fontSize) == Advance(AddLines(c, text, n, fontSize), Gap)

\* lines.forEach of a highlight, n iterations of
\* doc.text(line, margin + 10, yPosition); yPosition += 5
HighlightLines(c, n) ==
    [c EXCEPT !.y = @ + n * 50,
              !.ops = @ \o [k \in 1..n |->
                        [text |-> "highlight", x |-> Margin + 100,
                         y |-> c.y + (k - 1) * 50, page |-> c.page]]]

\* exp.highlights.forEach: the bullet, then the wrapped lines
RECURSIVE Highlights(_, _)
Highlights(c, hs) ==
    IF hs = <<>> THEN c
    ELSE Highlights(
           HighlightLines([c EXCEPT !.ops = Append(@, [text |-> "bullet", x |-> Margin + 50,
                                                       y |-> c.y, page |-> c.page])],
                          Head(hs)),
           Tail(hs))

\* cvData.experience.forEach: title | company, period, highlights, gap
RECURSIVE ExperienceEntries(_, _)
ExperienceEntries(c, es) ==
    IF es = <<>> THEN c
    ELSE ExperienceEntries(
           Advance(Highlights(AddText(AddText(c, "title | company", 1, 12), "period", 1, 10),
                              Head(es)),
                   Gap),
           Tail(es))

\* cvData.education.forEach: degree, institution and year, gap
RECURSIVE EducationEntries(_, _)
EducationEntries(c, es) ==
    IF es = <<>> THEN c
    ELSE EducationEntries(
           Advance(AddText(AddText(c, "degree", 1, 12), "institution, year", 1, 10), Gap),
           Tail(es))

\* generatePDF: what the named section adds to the canvas
PdfSection(section, c, cv) ==
    CASE section = "header" ->
           IF HasHeader(cv)
             THEN Advance(AddText(AddText(c, "name", 1, 20), "contact", 1, 11), 100)
             ELSE c
      [] section = "summary" ->
           IF HasSummary(cv)
             THEN Advance(AddText(AddText(c, "PROFESSIONAL SUMMARY", 1, 14),
                                  "summary", cv.summary.lines, 11), Gap)
             ELSE c
      [] section = "skills" ->
           IF HasSkills(cv)
             THEN Advance(AddText(AddText(c, "KEY SKILLS", 1, 14), "skills", 1, 11), Gap)
             ELSE c
      [] section = "experience" ->
           IF HasExperience(cv)
             THEN ExperienceEntries(AddText(c, "PROFESSIONAL EXPERIENCE", 1, 14),
                                    cv.experience.entries)
             ELSE c
      [] section = "education" ->
           IF HasEducation(cv)
             THEN EducationEntries(AddText(c, "EDUCATION", 1, 14), cv.education.entries)
             ELSE c

RECURSIVE DocxEntriesNoPeriod(_, _)
DocxEntriesNoPeriod(ch, es) ==
    IF es = <<>> THEN ch
    ELSE DocxEntriesNoPeriod(
           ch \o <<"title | company">>
              \o [k \in 1..Len(Head(es)) |-> "highlight"]
              \o <<"">>,
           Tail(es))

\* per entry: title | company, period, one paragraph per highlight, a spacer
RECURSIVE DocxEntries(_, _)
DocxEntries(ch, es) ==
    IF es = <<>> THEN ch
    ELSE DocxEntries(
           ch \o <<"title | company", "period">>
              \o [k \in 1..Len(Head(es)) |-> "highlight"]
              \o <<"">>,
           Tail(es))

\* per entry: degree, institution and year
RECURSIVE DocxDegrees(_, _)
DocxDegrees(ch, es) ==
    IF es = <<>> THEN ch
    ELSE DocxDegrees(ch \o <<"degree", "institution, year">>, Tail(es))

\* generateDOCX: the paragraphs the named section pushes to children
DocxSection(section, ch, cv) ==
    CASE section = "header" ->
           IF HasHeader(cv) THEN ch \o <<"name", "contact">> ELSE ch
      [] section = "summary" ->
           IF HasSummary(cv) THEN ch \o <<"PROFESSIONAL SUMMARY", "summary">> ELSE ch
      [] section = "skills" ->
           IF HasSkills(cv) THEN ch \o <<"KEY SKILLS", "skills">> ELSE ch
      [] section = "experience" ->
           IF HasExperience(cv)
             THEN DocxEntries(Append(ch, "PROFESSIONAL EXPERIENCE"), cv.experience.entries)
             ELSE ch
      [] section = "education" ->
           IF HasEducation(cv)
             THEN DocxDegrees(Append(ch, "EDUCATION"), cv.education.entries)
             ELSE ch

\* the whitespace characters of the strings for names and job roles
WsTokens == {" ", "<tab>"}

\* jobRole.replace(/\s+/g, '-'): every run of whitespace becomes one hyphen
RECURSIVE DropWs(_)
DropWs(s) == IF s # <<>> /\ Head(s) \in WsTokens THEN DropWs(Tail(s)) ELSE s

RECURSIVE ReplaceWs(_)
ReplaceWs(s) ==
    IF s = <<>> THEN <<>>
    ELSE IF Head(s) \in WsTokens THEN <<"-">> \o ReplaceWs(DropWs(s))
    ELSE <<Head(s)>> \o ReplaceWs(Tail(s))

\* Date.prototype.toISOString of an instant of the given UTC day
ToISOString(day) == <<day, "T", "20:51:08.000Z">>

\* .split('T')[0]
RECURSIVE BeforeT(_)
BeforeT(s) == IF s = <<>> \/ Head(s) = "T" THEN <<>> ELSE <<Head(s)>> \o BeforeT(Tail(s))

\* optimized-cv- + (jobRole || "CV").replace(/\s+/g, '-') + - + timestamp
\* + . + format
FileName(jobRole, timestamp, format) ==
    <<"optimized-cv-">> \o ReplaceWs(IF jobRole # <<>> THEN jobRole ELSE <<"CV">>)
       \o <<"-">> \o timestamp \o <<".", format>>

\* path preview: the page holds optimizedCV and the job role typed by the
\* user; path dashboard: a cv_optimizations row with job_role and created_at.
\* The record: header absent or with a name; summary absent, empty or a text
\* of so many wrapped lines; the three arrays absent, empty or filled.
InitExport ==
    /\ xt = Idle
    /\ dash = Idle
    /\ rt = RtIdle
    /\ cls = Idle
    /\ ui = Idle
    /\ inv = Idle
    /\ nz = Idle
    /\ srv = Idle
    /\ ut = Idle
    /\ up = Idle
    /\ \E path \in {"preview", "dashboard"},
          name \in { <<>>, <<"Ada">>, <<"Ada", " ", "Lovelace">> },
          su \in { [kind |-> "absent", lines |-> 0], [kind |-> "empty", lines |-> 0],
                   [kind |-> "text", lines |-> 1],
                   [kind |-> "text", lines |-> 2 * MaxLines] },
          sk \in { Listing(FALSE, <<>>), Listing(TRUE, <<>>),
                   Listing(TRUE, <<"Go", "SQL">>) },
          xp \in { Listing(FALSE, <<>>), Listing(TRUE, <<>>),
                   Listing(TRUE, << <<1>> >>),
                   Listing(TRUE, << <<>>, <<2, 1>> >>),
                   Listing(TRUE, << <<MaxLines, MaxLines>>, <<1>> >>) },
          ed \in { Listing(FALSE, <<>>), Listing(TRUE, <<>>), Listing(TRUE, <<"BSc">>),
                   Listing(TRUE, <<"BSc", "MSc">>) },
          role \in { <<>>, <<"Engineer">>, <<"Data", " ", "Engineer">>,
                     <<"Data", " ", "<tab>", "Engineer", " ">> },
          day \in {"2025-11-01", "2025-11-03"} :
          ex = [pc |-> "ready", path |-> path,
                cv |-> [header |-> [present |-> name # <<>>, name |-> name],
                        summary |-> su, skills |-> sk, experience |-> xp,
                        education |-> ed],
                jobRole |-> role, today |-> "2025-11-03", created_at |-> day,
                format |-> "", timestamp |-> <<>>, filename |-> <<>>,
                canvas |-> [y |-> Margin, page |-> 1, ops |-> <<>>],
                children |-> <<>>, saved |-> <<>>, toasts |-> <<>>]

\* CVPreview handleDownload: jobRole = optimizedCV.header?.name || "CV",
\* timestamp = new Date().toISOString().split('T')[0]
PreviewDownload ==
    /\ ex.pc = "ready"
    /\ ex.path = "preview"
    /\ \E format \in {"pdf", "docx"} :
          LET timestamp == BeforeT(ToISOString(ex.today))
              name == IF ex.cv.header.present THEN ex.cv.header.name ELSE <<>>
          IN  ex' = [ex EXCEPT !.pc = "header", !.format = format,
                               !.timestamp = timestamp,
                               !.filename = FileName(name, timestamp, format)]
    /\ UNCHANGED <<rt, cls, ui, inv, nz, srv, ut, up, xt, dash>>

\* Dashboard handleDownload: jobRole = optimization.job_role || "CV",
\* timestamp = new Date(optimization.created_at).toISOString().split('T')[0]
DashboardDownload ==
    /\ ex.pc = "ready"
    /\ ex.path = "dashboard"
    /\ \E format \in {"pdf", "docx"} :
          LET timestamp == BeforeT(ToISOString(ex.created_at))
          IN  ex' = [ex EXCEPT !.pc = "header", !.format = format,
                               !.timestamp = timestamp,
                               !.filename = FileName(ex.jobRole, timestamp, format)]
    /\ UNCHANGED <<rt, cls, ui, inv, nz, srv, ut, up, xt, dash>>

\* the sections in the order both generators write them, then the save
SectionAfter(section) ==
    CASE section = "header" -> "summary"
      [] section = "summary" -> "skills"
      [] section = "skills" -> "experience"
      [] section = "experience" -> "education"
      [] section = "education" -> "save"

\* generatePDF writes its next section
PdfStep ==
    /\ ex.pc \in {"header", "summary", "skills", "experience", "education"}
    /\ ex.format = "pdf"
    /\ ex' = [ex EXCEPT !.pc = SectionAfter(ex.pc),
                        !.canvas = PdfSection(ex.pc, @, ex.cv)]
    /\ UNCHANGED <<rt, cls, ui, inv, nz, srv, ut, up, xt, dash>>

\* generateDOCX writes its next section
DocxStep ==
    /\ ex.pc \in {"header", "summary", "skills", "experience", "education"}
    /\ ex.format = "docx"
    /\ ex' = [ex EXCEPT !.pc = SectionAfter(ex.pc),
                        !.children = DocxSection(ex.pc, @, ex.cv)]
    /\ UNCHANGED <<rt, cls, ui, inv, nz, srv, ut, up, xt, dash>>

\* doc.save(filename) or saveAs(blob, filename); then toast.success
SaveFile ==
    /\ ex.pc = "save"
    /\ ex' = [ex EXCEPT !.pc = "done", !.saved = ex.filename,
                        !.toasts = Append(@, Toast("success",
                            IF ex.format = "pdf"
                              THEN <<"PDF downloaded successfully!">>
                              ELSE <<"DOCX downloaded successfully!">>))]
    /\ UNCHANGED <<rt, cls, ui, inv, nz, srv, ut, up, xt, dash>>

NextExport ==
    \/ PreviewDownload
    \/ DashboardDownload
    \/ PdfStep
    \/ DocxStep
    \/ SaveFile

SpecExport == InitExport /\ [][NextExport]_vars

\* the texts of the file written: the lines drawn or the paragraphs pushed
EmittedTexts ==
    IF ex.format = "pdf"
      THEN {ex.canvas.ops[k].text : k \in 1..Len(ex.canvas.ops)}
      ELSE {ex.children[k] : k \in 1..Len(ex.children)}

\* the text blocks of a canvas: the wrapped lines of one text are one block,
\* and a bullet with the lines of its highlight is one block
PdfBlocks(ops) ==
    LET marked == [k \in 1..Len(ops) |->
                     [text |-> ops[k].text,
                      first |-> k = 1 \/ ops[k - 1].text # ops[k].text]]
        starts == SelectSeq(marked, LAMBDA o : o.first /\ o.text # "bullet")
    IN  [k \in 1..Len(starts) |-> starts[k].text]

\* the text blocks of a document: its paragraphs without the empty spacers
DocxBlocks(children) == SelectSeq(children, LAMBDA t : t # "")

\* generatePDF and generateDOCX applied to a record: every section in
\* order, each applied to what the sections before it left
PdfOf(cv) ==
    CHOOSE ops \in
      { PdfSection("education", c4, cv).ops :
          c4 \in { PdfSection("experience", c3, cv) :
            c3 \in { PdfSection("skills", c2, cv) :
              c2 \in { PdfSection("summary", c1, cv) :
                c1 \in { PdfSection("header",
                                    [y |-> Margin, page |-> 1, ops |-> <<>>],
                                    cv) } } } } } : TRUE

DocxOf(cv) ==
    DocxSection("education",
      DocxSection("experience",
        DocxSection("skills",
          DocxSection("summary", DocxSection("header", <<>>, cv), cv), cv), cv), cv)

\* C23: for every record, the ordered text blocks of the document that
\* generateDOCX builds (name, contact, headings, summary, joined skills,
\* per experience title | company, period and one block per highlight, per
\* education degree and institution with year), empty spacer paragraphs
\* left out, are the ordered text blocks generatePDF draws for that record.
C23_DocxMirrorsPdf ==
    ex.pc = "done" =>
       PdfBlocks(IF ex.format = "pdf" THEN ex.canvas.ops ELSE PdfOf(ex.cv))
         = DocxBlocks(IF ex.format = "docx" THEN ex.children ELSE DocxOf(ex.cv))

\* a written DOCX of a record with every section, two experience entries
\* and highlights wrapped over many lines in the PDF
C23_Witness ==
    /\ ex.pc = "done"
    /\ ex.format = "docx"
    /\ ex.cv.header.present
    /\ ex.cv.summary.lines > 1
    /\ Len(ex.cv.skills.entries) = 2
    /\ ex.cv.experience.entries = << <<MaxLines, MaxLines>>, <<1>> >>
    /\ Len(ex.cv.education.entries) = 2
    /\ Len(DocxBlocks(ex.children)) = 19
    /\ Len(PdfOf(ex.cv)) > 2 * MaxLines

NonEmptyList(l) == l.present /\ l.entries # <<>>

\* C16: in the file generatePDF and generateDOCX write, a section heading
\* (PROFESSIONAL SUMMARY, KEY SKILLS, PROFESSIONAL EXPERIENCE, EDUCATION) is
\* present exactly when its field is present and non-empty; with skills
\* empty or absent neither the heading nor the skills line is there; with
\* header absent no name and no contact line is there, and the file is
\* still written.
C16_OmissionLaw ==
    ex.pc = "done" =>
       /\ ex.saved = ex.filename
       /\ ("PROFESSIONAL SUMMARY" \in EmittedTexts) <=> (ex.cv.summary.kind = "text")
       /\ ("KEY SKILLS" \in EmittedTexts) <=> (NonEmptyList(ex.cv.skills))
       /\ ("PROFESSIONAL EXPERIENCE" \in EmittedTexts) <=> (NonEmptyList(ex.cv.experience))
       /\ ("EDUCATION" \in EmittedTexts) <=> (NonEmptyList(ex.cv.education))
       /\ ("summary" \in EmittedTexts) <=> (ex.cv.summary.kind = "text")
       /\ ("skills" \in EmittedTexts) <=> (NonEmptyList(ex.cv.skills))
       /\ ("name" \in EmittedTexts) <=> (ex.cv.header.present)
       /\ ("contact" \in EmittedTexts) <=> (ex.cv.header.present)

C16_Witness ==
    /\ ex.pc = "done"
    /\ ex.format = "docx"
    /\ ~ex.cv.header.present
    /\ ex.cv.skills = Listing(TRUE, <<>>)
    /\ ex.cv.summary.kind = "empty"
    /\ ex.children = <<"EDUCATION", "degree", "institution, year">>
    /\ ex.saved # <<>>

\* the job role the download is for: what the user typed on the page, or
\* the job_role of the stored optimization
ClaimedFileName ==
    <<"optimized-cv-">> \o ReplaceWs(ex.jobRole) \o <<"-">> \o ex.timestamp
       \o <<".", ex.format>>

\* C17: on both download paths the exported file is named optimized-cv-,
\* the job role with every whitespace run replaced by a hyphen, a hyphen,
\* the ISO date, and .pdf or .docx; the middle component is the job role
\* and no other field.
C17_FileName ==
    (ex.pc = "done" /\ ex.jobRole # <<>>) =>
       /\ ex.saved = ClaimedFileName
       /\ ex.timestamp \in {<<"2025-11-01">>, <<"2025-11-03">>}

\* C19: generatePDF draws no line below page height - 30: before every line
\* it draws, the wrapped lines of the highlights included, the cursor is
\* tested and, when past the limit, a page is added and the cursor is reset
\* to the top margin.
C19_PageBreaks ==
    (ex.pc # "idle" /\ ex.format = "pdf") =>
       \A k \in 1..Len(ex.canvas.ops) : ex.canvas.ops[k].y <= PageHeight - 300

(***************************************************************************)
(* SpecUpload: the ResumeUpload component.  The user picks files in the    *)
(* file input (disabled while a file is processed) and types in the text   *)
(* area; extractTextFromFile is the environment.                           *)
(***************************************************************************)
\* const maxSize = 10 * 1024 * 1024
MaxSize == 10 * 1024 * 1024

InitUpload ==
    /\ xt = Idle
    /\ dash = Idle
    /\ rt = RtIdle
    /\ cls = Idle
    /\ ui = Idle
    /\ inv = Idle
    /\ nz = Idle
    /\ srv = Idle
    /\ ut = Idle
    /\ ex = Idle
    /\ \E text \in {"", "typed"} :
          up = [pc |-> "ready", resumeText |-> text, isProcessing |-> FALSE,
                uploads |-> 0, extracted |-> <<>>, toasts |-> <<>>,
                last |-> [kind |-> "none", size |-> 0, textBefore |-> "",
                          callsBefore |-> 0, toastsBefore |-> 0, processed |-> FALSE]]

\* <Textarea onChange={(e) => onResumeTextChange(e.target.value)}>
TypeText ==
    /\ up.pc # "idle"
    /\ up.last.kind # "typed"
    /\ \E text \in {"", "typed"} :
          up' = [up EXCEPT !.resumeText = text, !.last.kind = "typed"]
    /\ UNCHANGED <<rt, cls, ui, inv, nz, srv, ut, ex, xt, dash>>

TooLargeAtLimit(size) == size >= MaxSize

\* if (file.size > maxSize)
TooLarge(size) == size > MaxSize

\* handleFileUpload up to await extractTextFromFile(file); size is file.size
\* of the chosen file, -1 when the change event carries no file
FileChosen ==
    /\ up.pc = "ready"
    /\ ~up.isProcessing
    /\ up.uploads < MaxUploads
    /\ \E size \in {-1, 0, 1, MaxSize - 1, MaxSize, MaxSize + 1, 2 * MaxSize} :
          LET u == [up EXCEPT !.uploads = @ + 1,
                              !.last = [kind |-> IF size = -1 THEN "nofile" ELSE "file",
                                        size |-> size,
                                        textBefore |-> up.resumeText,
                                        callsBefore |-> Len(up.extracted),
                                        toastsBefore |-> Len(up.toasts),
                                        processed |-> FALSE]]
          IN  up' = IF size = -1 THEN u
                    ELSE IF TooLarge(size)
                      THEN [u EXCEPT !.toasts = Append(@,
                              Toast("error", <<"File size must be less than 10MB">>))]
                    ELSE [u EXCEPT !.pc = "extracting", !.isProcessing = TRUE,
                                   !.last.processed = TRUE,
                                   !.extracted = Append(@, size)]
    /\ UNCHANGED <<rt, cls, ui, inv, nz, srv, ut, ex, xt, dash>>

\* the rest of the try block, the catch and the finally; extractTextFromFile
\* resolves with error, with text, with an empty text, or rejects
ExtractorSettles ==
    /\ up.pc = "extracting"
    /\ \E out \in {"error", "text", "empty", "threw"} :
          up' = [up EXCEPT
                   !.pc = "ready", !.isProcessing = FALSE,
                   !.resumeText = IF out = "text" THEN "extracted" ELSE @,
                   !.toasts = Append(@,
                      IF out = "error" THEN Toast("error", <<"Unsupported", "file", "type.">>)
                      ELSE IF out = "text"
                        THEN Toast("success", <<"Resume", "extracted", "successfully!">>)
                      ELSE IF out = "empty"
                        THEN Toast("warning", <<"No text could be extracted from this file.">>)
                      ELSE Toast("error", <<"Failed", "to", "process", "file">>))]
    /\ UNCHANGED <<rt, cls, ui, inv, nz, srv, ut, ex, xt, dash>>

NextUpload == TypeText \/ FileChosen \/ ExtractorSettles

SpecUpload == InitUpload /\ [][NextUpload]_vars

\* C18: a file of more than 10 * 1024 * 1024 bytes is rejected with the
\* size-limit error before extractTextFromFile is called: the resume text
\* is unchanged and the processing flag is never set; a file of exactly
\* 10 MiB or less is passed to the extractor.
C18_SizeLimit ==
    (up.pc # "idle" /\ up.last.kind = "file") =>
       /\ up.last.size > 10485760 =>
            /\ Len(up.extracted) = up.last.callsBefore
            /\ up.resumeText = up.last.textBefore
            /\ ~up.last.processed
            /\ ~up.isProcessing
            /\ up.toasts = Append(SubSeq(up.toasts, 1, up.last.toastsBefore),
                                  Toast("error", <<"File size must be less than 10MB">>))
       /\ up.last.size <= 10485760 =>
            /\ Len(up.extracted) = up.last.callsBefore + 1
            /\ up.extracted[Len(up.extracted)] = up.last.size
            /\ up.last.processed

C18_Witness ==
    /\ up.last.kind = "file"
    /\ up.last.size = 10485761
    /\ up.last.textBefore = "extracted"
    /\ up.extracted = <<10485760>>
    /\ up.resumeText = "extracted"
    /\ Len(up.toasts) = 2

(***************************************************************************)
(* SpecExtract: extractTextFromFile (lib/fileParser) applied to one file.  *)
(* A file is known by its declared media type and its name, a sequence of  *)
(* stem and extensions; pdfjs, mammoth and File.text are the environment.  *)
(***************************************************************************)
RouteTextFirst(file) ==
    LET fileType == file.type
        fileName == ToLowerCase(file.name)
        EndsWith(ext) == fileName # <<>> /\ fileName[Len(fileName)] = ext
    IN  IF fileType = "text/plain" \/ EndsWith(".txt") THEN "TXT"
        ELSE IF fileType = "application/pdf" \/ EndsWith(".pdf") THEN "PDF"
        ELSE IF fileType = "application/vnd.openxmlformats-officedocument.wordprocessingml.document"
                \/ fileType = "application/msword"
                \/ EndsWith(".docx") \/ EndsWith(".doc")
          THEN "DOCX"
        ELSE "none"

\* the if-chain of extractTextFromFile on fileType = file.type and
\* fileName = file.name.toLowerCase()
Route(file) ==
    LET fileType == file.type
        fileName == ToLowerCase(file.name)
        EndsWith(ext) == fileName # <<>> /\ fileName[Len(fileName)] = ext
    IN  IF fileType = "application/pdf" \/ EndsWith(".pdf") THEN "PDF"
        ELSE IF fileType = "application/vnd.openxmlformats-officedocument.wordprocessingml.document"
                \/ fileType = "application/msword"
                \/ EndsWith(".docx") \/ EndsWith(".doc")
          THEN "DOCX"
        ELSE IF fileType = "text/plain" \/ EndsWith(".txt") THEN "TXT"
        ELSE "none"

\* a ParseResult: text, and error when the property is there
ParseResult(text, hasError, error) ==
    [text |-> text, hasError |-> hasError, error |-> error]

\* extractTextFromPDF, extractTextFromDOCX, extractTextFromTXT: the try
\* block returns { text: ....trim() }; the catch returns text "" and
\* error instanceof Error ? error.message : "Failed to parse <route>"
DecoderResult(route, outcome) ==
    IF outcome.kind = "text" THEN ParseResult(outcome.text, FALSE, <<>>)
    ELSE ParseResult("", TRUE,
                     IF outcome.kind = "error" THEN outcome.message
                     ELSE <<"Failed", "to", "parse", route>>)

\* the file handed over by the file input: any declared type with any name
InitExtract ==
    /\ rt = RtIdle
    /\ cls = Idle
    /\ ui = Idle
    /\ inv = Idle
    /\ nz = Idle
    /\ srv = Idle
    /\ ut = Idle
    /\ ex = Idle
    /\ up = Idle
    /\ dash = Idle
    /\ \E type \in {"application/pdf",
                     "application/vnd.openxmlformats-officedocument.wordprocessingml.document",
                     "application/msword", "text/plain", "image/png", ""},
          name \in { <<"cv", ".pdf">>, <<"CV", ".PDF">>, <<"cv", ".docx">>,
                     <<"cv", ".Docx">>, <<"cv", ".doc">>, <<"cv", ".DOC">>,
                     <<"cv", ".txt">>, <<"notes", ".TXT">>, <<"cv", ".png">>,
                     <<"cv", ".pdf", ".bak">>, <<"cv", ".txt", ".pdf">>, <<"cv">> } :
          xt = [pc |-> "called", file |-> [type |-> type, name |-> name],
                decoded |-> <<>>, result |-> ParseResult("", FALSE, <<>>)]

\* extractTextFromFile up to the await of the decoder it chose, or to the
\* return of the unsupported-type result
ExtractTextFromFile ==
    /\ xt.pc = "called"
    /\ xt' = IF Route(xt.file) = "none"
               THEN [xt EXCEPT !.pc = "returned",
                               !.result = ParseResult("", TRUE,
                                  <<"Unsupported file type. Please upload PDF, DOCX, or TXT.">>)]
               ELSE [xt EXCEPT !.pc = "decoding",
                               !.decoded = Append(@, Route(xt.file))]
    /\ UNCHANGED <<rt, cls, ui, inv, nz, srv, ut, ex, up, dash>>

\* the decoder settles: text found (possibly empty after trim), or its
\* library threw an Error with a message, or threw a value that is no Error
DecoderSettles ==
    /\ xt.pc = "decoding"
    /\ \E outcome \in { [kind |-> "text", text |-> "resume text", message |-> <<>>],
                         [kind |-> "text", text |-> "", message |-> <<>>],
                         [kind |-> "error", text |-> "",
                          message |-> <<"Invalid", "PDF", "structure">>],
                         [kind |-> "error", text |-> "", message |-> <<"">>],
                         [kind |-> "value", text |-> "", message |-> <<>>] } :
          xt' = [xt EXCEPT !.pc = "returned",
                           !.result = DecoderResult(xt.decoded[Len(xt.decoded)], outcome)]
    /\ UNCHANGED <<rt, cls, ui, inv, nz, srv, ut, ex, up, dash>>

NextExtract == ExtractTextFromFile \/ DecoderSettles

SpecExtract == InitExtract /\ [][NextExtract]_vars

\* the extension of the lowercased file name
ClaimExtension ==
    IF xt.file.name = <<>> THEN ""
    ELSE ToLowerCase(xt.file.name)[Len(xt.file.name)]

\* the routes a file matches, by declared type or by extension
ClaimMatches ==
    (IF xt.file.type = "application/pdf" \/ ClaimExtension = ".pdf" THEN {1} ELSE {})
    \cup (IF xt.file.type \in {"application/vnd.openxmlformats-officedocument.wordprocessingml.document",
                               "application/msword"}
              \/ ClaimExtension \in {".docx", ".doc"} THEN {2} ELSE {})
    \cup (IF xt.file.type = "text/plain" \/ ClaimExtension = ".txt" THEN {3} ELSE {})

\* C26: every file takes exactly one route, the first of PDF, DOCX, plain
\* text that its declared type or lowercased extension matches; a file that
\* matches none is not decoded and gets an empty text with the error
\* naming PDF, DOCX and TXT; the call always returns a result, and a
\* decoder's failure is returned as an empty text with an error string.
C26_DispatchTotalOrdered ==
    (xt.pc \in {"decoding", "returned"}) =>
       /\ IF ClaimMatches = {}
            THEN /\ xt.decoded = <<>>
                 /\ xt.pc = "returned"
                 /\ xt.result = ParseResult("", TRUE,
                       <<"Unsupported file type. Please upload PDF, DOCX, or TXT.">>)
            ELSE xt.decoded =
                   << <<"PDF", "DOCX", "TXT">>[CHOOSE i \in ClaimMatches :
                                                 \A j \in ClaimMatches : i <= j] >>
       /\ (xt.pc = "returned" /\ xt.result.hasError) => xt.result.text = ""
       /\ (xt.pc = "returned" /\ ~xt.result.hasError) => xt.result.error = <<>>

\* a file declared as plain text and named with an upper-case PDF extension
\* went to the PDF decoder, which threw a value that is no Error
C26_Witness ==
    /\ xt.pc = "returned"
    /\ xt.file = [type |-> "text/plain", name |-> <<"CV", ".PDF">>]
    /\ xt.decoded = <<"PDF">>
    /\ xt.result = ParseResult("", TRUE, <<"Failed", "to", "parse", "PDF">>)

(***************************************************************************)
(* SpecDashboard: the Dashboard page of a signed-in user: the list read    *)
(* once on mount and handleDelete.  store is the user's rows of            *)
(* cv_optimizations; outcomes is what the store reported for the deletes   *)
(* that settled, in order.                                                 *)
(***************************************************************************)
\* the user's rows before the page is opened, created_at as a day number
InitDashboard ==
    /\ rt = RtIdle
    /\ cls = Idle
    /\ ui = Idle
    /\ inv = Idle
    /\ nz = Idle
    /\ srv = Idle
    /\ ut = Idle
    /\ ex = Idle
    /\ up = Idle
    /\ xt = Idle
    /\ \E rows \in SUBSET { [id |-> "a", created_at |-> 3],
                             [id |-> "b", created_at |-> 2],
                             [id |-> "c", created_at |-> 2],
                             [id |-> "d", created_at |-> 1] } :
          dash = [pc |-> "loading", store |-> rows, fetched |-> <<>>,
                  optimizations |-> <<>>, isLoading |-> TRUE, pending |-> <<>>,
                  outcomes |-> <<>>, clicks |-> 0, toasts |-> <<>>]

\* fetchOptimizations settled: select ... order("created_at", { ascending:
\* false }) returned the rows newest first (rows of one instant in either
\* order), returned null data, returned an error or threw
FetchOptimizations ==
    /\ dash.pc = "loading"
    /\ \/ \E data \in [1..Cardinality(dash.store) -> dash.store] :
             /\ \A i, j \in DOMAIN data :
                   i < j => (data[i] # data[j] /\ data[i].created_at >= data[j].created_at)
             /\ dash' = [dash EXCEPT !.pc = "shown", !.isLoading = FALSE,
                                     !.fetched = data, !.optimizations = data]
       \/ dash' = [dash EXCEPT !.pc = "shown", !.isLoading = FALSE]
       \/ dash' = [dash EXCEPT !.pc = "shown", !.isLoading = FALSE,
                               !.toasts = Append(@,
                                  Toast("error", <<"Failed to load your optimizations">>))]
    /\ UNCHANGED <<rt, cls, ui, inv, nz, srv, ut, ex, up, xt>>

\* the delete button of a displayed card: handleDelete(id) up to the await
HandleDelete ==
    /\ dash.pc = "shown"
    /\ dash.clicks < MaxDeletes
    /\ \E k \in DOMAIN dash.optimizations :
          dash' = [dash EXCEPT !.clicks = @ + 1,
                               !.pending = Append(@, dash.optimizations[k].id)]
    /\ UNCHANGED <<rt, cls, ui, inv, nz, srv, ut, ex, up, xt>>

AfterDeleteOptimistic(d, id, outcome) ==
    [d EXCEPT !.optimizations = SelectSeq(@, LAMBDA opt : opt.id # id),
              !.outcomes = Append(@, [id |-> id, error |-> outcome # "ok"]),
              !.toasts = Append(@, IF outcome = "ok"
                                     THEN Toast("success", <<"CV deleted successfully">>)
                                     ELSE Toast("error", <<"Failed to delete CV">>))]

\* the rest of handleDelete: if (error) throw error;
\* setOptimizations(prev => prev.filter(opt => opt.id !== id)); toast.success
\* and catch { toast.error }
AfterDelete(d, id, outcome) ==
    IF outcome = "ok"
      THEN [d EXCEPT !.optimizations = SelectSeq(@, LAMBDA opt : opt.id # id),
                     !.outcomes = Append(@, [id |-> id, error |-> FALSE]),
                     !.toasts = Append(@, Toast("success", <<"CV deleted successfully">>))]
      ELSE [d EXCEPT !.outcomes = Append(@, [id |-> id, error |-> TRUE]),
                     !.toasts = Append(@, Toast("error", <<"Failed to delete CV">>))]

\* a pending delete settles, in any order: the store deleted the row and
\* reported no error, reported no error with no row deleted (the row is
\* gone already, or the row policy hides it from an expired session),
\* reported an error, or the request threw
DeleteSettles ==
    /\ dash.pc = "shown"
    /\ \E k \in DOMAIN dash.pending, r \in {"deleted", "no-row", "error", "threw"} :
          LET id == dash.pending[k]
              rest == [i \in 1..(Len(dash.pending) - 1) |->
                         IF i < k THEN dash.pending[i] ELSE dash.pending[i + 1]]
          IN  dash' = AfterDelete(
                        [dash EXCEPT !.pending = rest,
                                     !.store = IF r = "deleted"
                                                 THEN {row \in @ : row.id # id}
                                                 ELSE @],
                        id,
                        IF r \in {"deleted", "no-row"} THEN "ok" ELSE r)
    /\ UNCHANGED <<rt, cls, ui, inv, nz, srv, ut, ex, up, xt>>

NextDashboard == FetchOptimizations \/ HandleDelete \/ DeleteSettles

SpecDashboard == InitDashboard /\ [][NextDashboard]_vars

\* the ids whose delete the store reported without error
ClaimDeleted ==
    {dash.outcomes[k].id : k \in {j \in DOMAIN dash.outcomes : ~dash.outcomes[j].error}}

\* C27: the displayed list is the list read on mount without the entries
\* whose delete the store reported without error: an entry leaves the list
\* only after such a report, a failed delete leaves the list as it was,
\* every other entry stays, and the remaining entries keep their
\* newest-first order.
C27_DeleteKeepsList ==
    dash.pc = "shown" =>
       /\ dash.optimizations =
            SelectSeq(dash.fetched, LAMBDA opt : opt.id \notin ClaimDeleted)
       /\ \A i, j \in DOMAIN dash.optimizations :
             i < j => dash.optimizations[i].created_at >= dash.optimizations[j].created_at

\* of four entries one was deleted, one delete failed and one is pending
C27_Witness ==
    /\ dash.pc = "shown"
    /\ Len(dash.fetched) = 4
    /\ dash.outcomes = << [id |-> "b", error |-> FALSE], [id |-> "c", error |-> TRUE] >>
    /\ dash.pending = <<"a">>
    /\ Len(dash.optimizations) = 3
    /\ dash.optimizations[2].id = "c"

(***************************************************************************)
(* SpecPipeline: one handleOptimize run from setIsOptimizing(true) to its  *)
(* notice, with the endpoint it invokes: every invocation of the client    *)
(* engine is a request to the handler, whose optimizeCVWithAI runs the     *)
(* server engine against the provider.  ui.outbound counts the provider    *)
(* calls of the requests already answered.                                 *)
(***************************************************************************)
\* handleOptimize after its checks passed: retryRequest(fn, 3, 1000, onRetry)
InitPipeline ==
    /\ cls = Idle
    /\ nz = Idle
    /\ ut = Idle
    /\ ex = Idle
    /\ up = Idle
    /\ xt = Idle
    /\ dash = Idle
    /\ srv = Idle
    /\ inv = Idle
    /\ rt = [RtIdle EXCEPT !["client"] = RetryStart(ClientMaxRetries, ClientDelay, TRUE)]
    /\ \E user \in BOOLEAN :
          ui = [pc |-> "running", session |-> user, user |-> user, authLoaded |-> TRUE,
                resumeText |-> "text", jobDescription |-> "text", configOk |-> TRUE,
                usageCount |-> 0, usageLoaded |-> TRUE, dbCount |-> 0,
                isOptimizing |-> TRUE, optimizedCV |-> "none", navigated |-> FALSE,
                unhandled |-> FALSE, toasts |-> <<>>, calls |-> <<>>,
                usageResult |-> "none", succeeded |-> 0, inFlight |-> 1,
                outbound |-> 0]

\* an attempt of the client engine: supabase.functions.invoke("optimize-cv",
\* { body: { resumeText, jobDescription, jobRole } }) reaches the handler
PipelineInvoke ==
    /\ ui.pc = "running"
    /\ rt["client"].pc = "loop"
    /\ rt["client"].attempt <= rt["client"].maxRetries
    /\ srv.pc = "idle"
    /\ rt' = [rt EXCEPT !["client"] = RetryInvokeRec(@)]
    /\ \E key \in BOOLEAN :
          /\ srv' = [pc |-> "request", method |-> "POST",
                     contentType |-> <<"application/json">>,
                     body |-> [text |-> "object", resumeText |-> "text",
                               jobDescription |-> "text", jobRole |-> "text"],
                     hasKey |-> key, authHeader |-> "Bearer jwt", modelCalls |-> 0,
                     ai |-> "none", parsed |-> FALSE, parsedCV |-> NoCV, userId |-> "",
                     authResult |-> "none", insertResult |-> "none", rows |-> <<>>,
                     thrown |-> <<>>, status |-> 0, error |-> <<>>,
                     response |-> [kind |-> "none", cv |-> NoCV]]
          /\ inv' = [pc |-> "start", hasKey |-> key, calls |-> <<>>,
                     result |-> "", thrown |-> JSNull]
    /\ UNCHANGED <<cls, ui, nz, ut, ex, up, xt, dash>>

\* optimizeCVWithAI inside the handler; the provider answers 200, 404 with
\* a not-found error body, or 500
PipelineInvoker ==
    /\ srv.pc = "model"
    /\ NextInvoker
    /\ \A i \in DOMAIN inv'.calls :
          inv'.calls[i].err \in
            {JSNull} \cup { CallGemini(r).err :
                              r \in {x \in ProviderResponses :
                                       x.status \in {200, 500}
                                         \/ (x.status = 404 /\ x.body = "error")} }

\* await optimizeCVWithAI(...) in the handler settles: the engine's
\* result or error is handed to the handler and its calls are counted
PipelineModelReturns ==
    /\ srv.pc = "model"
    /\ inv.pc \in {"returned", "failed"}
    /\ srv' = IF inv.pc = "failed"
                THEN [srv EXCEPT !.ai = "rejected", !.thrown = inv.thrown.mstr]
                ELSE [srv EXCEPT !.ai = "resolved"]
    /\ ui' = [ui EXCEPT !.outbound = @ + Len(inv.calls)]
    /\ inv' = [pc |-> "settled"]
    /\ rt' = [rt EXCEPT !["server"] = RetryIdle]
    /\ UNCHANGED <<cls, nz, ut, ex, up, xt, dash>>

\* the handler goes on: it throws what optimizeCVWithAI threw, or reads
\* and parses the provider's body
PipelineModelSettles ==
    /\ inv.pc = "settled"
    /\ ModelSettles
    /\ (srv'.ai = "threw") <=> (srv.ai = "rejected")
    /\ srv.ai = "rejected" => srv'.thrown = srv.thrown

\* supabase.functions.invoke settles with { data, error }: the record of a
\* 200 response, a FunctionsHttpError for any other status, or a
\* FunctionsFetchError when the response does not arrive; then the rest of
\* the operation and of the engine's loop body, as in EndpointResponds
PipelineResponds ==
    /\ ui.pc = "running"
    /\ rt["client"].pc = "pending"
    /\ srv.pc = "responded"
    /\ \E arrived \in BOOLEAN :
       \E error \in
            { IF ~arrived
                THEN JSError("FunctionsFetchError",
                             <<"Failed", "to", "send", "a", "request", "to", "the",
                               "Edge", "Function">>, 0)
              ELSE IF srv.status = 200 THEN JSNull
              ELSE JSError("FunctionsHttpError",
                           <<"Edge", "Function", "returned", "a", "non-2xx",
                             "status", "code">>, 0) } :
       \E res \in { [data |-> IF Truthy(error) THEN "" ELSE "cv1", error |-> error,
                     parseFailed |->
                        srv.thrown = <<"Failed", "to", "parse", "AI", "response">>] },
          thrown \in { ThrownByInvoke(error) } :
       \E r2 \in { IF Truthy(error)
                      THEN RetryRejectedRec(rt["client"], thrown)
                      ELSE RetryResolvedRec(rt["client"], res.data) } :
       \E notices \in { NewNotices(rt["client"], r2) } :
          /\ rt' = [rt EXCEPT !["client"] = r2]
          /\ ui' = [ui EXCEPT !.calls = Append(@, res), !.toasts = @ \o notices]
    /\ srv' = Idle
    /\ inv' = Idle
    /\ UNCHANGED <<cls, nz, ut, ex, up, xt, dash>>

NextPipeline ==
    \/ PipelineInvoke
    \/ HandleRequest
    \/ PipelineInvoker
    \/ PipelineModelReturns
    \/ PipelineModelSettles
    \/ AuthSettles
    \/ InsertSettles
    \/ HandlerCatch
    \/ PipelineResponds
    \/ ClientRetryTimer
    \/ ClientRetryExhausted
    \/ OptimizeSucceeded
    \/ UsageIncremented
    \/ UsageRefreshed
    \/ OptimizeFailed

SpecPipeline == InitPipeline /\ [][NextPipeline]_vars

\* every awaited promise settles and every timer fires
SpecPipelineFair == SpecPipeline /\ WF_vars(NextPipeline)

\* the provider calls of the run so far
TotalOutbound ==
    ui.outbound + (IF inv.pc \in {"idle", "settled"} THEN 0 ELSE Len(inv.calls))

\* C21 (as stated): when the model's text cannot be parsed the endpoint
\* answers with a failure whose message is Failed to parse AI response,
\* the request persists nothing, and for that run the model is not invoked
\* again: the answer with the parse failure is the last one of the run and
\* no provider call follows it.
C21_ParseErrorTerminal ==
    ui.pc # "idle" =>
       /\ (srv.pc = "responded"
             /\ srv.thrown = <<"Failed", "to", "parse", "AI", "response">>) =>
            /\ srv.status # 200
            /\ srv.response.kind # "record"
            /\ srv.rows = <<>>
       /\ \A i \in DOMAIN ui.calls :
             ui.calls[i].parseFailed =>
                /\ i = Len(ui.calls)
                /\ rt["client"].pc # "pending"
                /\ TotalOutbound = ui.outbound

\* C28: in one handleOptimize run the provider receives at most 18 calls:
\* at most 3 invocations of the endpoint, each with at most 3 engine
\* attempts of at most 2 calls; and the run ends, after finitely many
\* steps, with a success notice or an error notice.
C28_BoundedFanOut ==
    /\ [](ui.pc # "idle" =>
            /\ TotalOutbound <= 18
            /\ Len(EventsOf(rt["client"].log, "call")) <= 3
            /\ inv.pc \notin {"idle", "settled"} =>
                  /\ Len(inv.calls) <= 6
                  /\ \A i \in DOMAIN inv.calls :
                        /\ inv.calls[i].attempt \in 1..3
                        /\ Len(SelectSeq(inv.calls,
                              LAMBDA c : c.attempt = inv.calls[i].attempt)) <= 2)
    /\ <>(/\ ui.pc = "ready"
          /\ ~ui.isOptimizing
          /\ ui.toasts # <<>>
          /\ ui.toasts[Len(ui.toasts)].level \in {"success", "error"})

\* a run of 3 invocations, each of 3 attempts of 2 calls, ended with an
\* error notice
C28_Witness ==
    /\ ui.pc = "ready"
    /\ TotalOutbound = 18
    /\ Len(ui.calls) = 3
    /\ Len(ErrorToasts) = 1
    /\ ui.toasts[Len(ui.toasts)].level = "error"

====
